---- MODULE Spec2Model ----
(***************************************************************************)
(* TuneCapsule (IdmFoundInHim/tunecapsule): the classification engine      *)
(* (ss_classify and its helpers in sentences.py), the season engine        *)
(* (ss_season: the query parser, the dispatch, and the seasons made from   *)
(* a classification and an optional range of years) and the artist scores  *)
(* of stats.py, over the catalog tables of _dbinit.py.  The automatic      *)
(* seasons (a slot number, a bare update) are dispatched but not run.      *)
(*                                                                         *)
(* Text is modelled at two levels.  Text that the code parses (queries,    *)
(* Spotify release dates) is a sequence of one-character strings, so that  *)
(* split / isdigit / len / int / upper are computed as the code computes   *)
(* them.  Text that the code only stores and compares (names, ids) is a    *)
(* TLA+ string.  A "strray" (utilities.list2strray: the items joined by a  *)
(* tab) is modelled by the sequence of its items; every item of the model  *)
(* is tab-free and non-empty, so the join is injective on those.           *)
(* A date is the integer yyyymmdd, which orders like date and like the     *)
(* ISO text sqlite stores.                                                 *)
(***************************************************************************)
EXTENDS Integers, Sequences, FiniteSets, Bags, TLC

VARIABLES
    ranking,              \* table ranking
    certification,        \* table certification
    helper_artist_group,  \* table helper_artist_group
    helper_single,        \* table helper_single
    helper_artist_score,  \* table helper_artist_score
    season,               \* table season
    playlist,             \* Spotify: playlist id -> sequence of track ids
    artist_name,          \* Spotify: artist id -> current display name
    now,                  \* clock read by datetime.now()
    projects,             \* projects ss_classify has still to process
    query,                \* query of the running ss_classify
    last                  \* inputs and outcome of the last step

vars == <<ranking, certification, helper_artist_group, helper_single,
          helper_artist_score, season, playlist, artist_name, now, projects, query, last>>

-----------------------------------------------------------------------------
(* Bounds of the model *)

\* ss_classify is called only while the clock (one tick per datetime.now(), which
\* _classify_build_row reads) is below MaxClock
MaxClock == 2
\* ... in the specification of the ranking table alone
MaxRankClock == 3
\* ... in the specification of the seasons
MaxSeasonClock == 2
\* ss_season is called only while the season table has given out fewer than
\* MaxSeasons rowids
MaxSeasons == 2
\* ... and only while the user has at most MaxPlaylists playlists
MaxPlaylists == 3
\* ... in the specification of seasons made and refreshed
MaxReplayClock == 2
MaxReplaySeasons == 2
\* ... in the specification of the automatic seasons
MaxAutoClock == 2
MaxAutoSeasons == 3
MaxAutoPlaylists == 4
\* ... in the specification of the scores
MaxScoreClock == 3
MaxScoreSeasons == 1
\* ... in the specification of a season of a rank and a certification
MaxMixedClock == 2
MaxMixedSeasons == 1
\* ... in the specification of the releases of two artists
MaxGroupClock == 3
\* ... in the specification of a single and its album of another year
MaxSingleClock == 2
MaxSingleSeasons == 2
\* ... in the specification of two certifications of one album
MaxCertClock == 2
MaxCertSeasons == 2
\* ... in the specification of a release of more than two seasons
MaxHugeClock == 2
MaxHugeSeasons == 2
\* ... in the specification of the lowest rank
MaxLowClock == 2
MaxLowSeasons == 2

-----------------------------------------------------------------------------
(* _constants.py *)

RANKINGS == <<"E", "C", "B", "A">>
AUTOSEASON_RANKINGS == {"A", "B"}
EXCLUSION_CERTIFICATIONS == {"CHRISTMAS"}
IDEAL_AUTOSEASON_LENGTH == 80
SEASON_KEYWORDS == {"update"}
SPOTIFY_DATE_DELIMITER == "-"

\* RANKINGS.index(c)
RankIndex(c) == CHOOSE i \in 1..Len(RANKINGS) : RANKINGS[i] = c
InRankings(c) == \E i \in 1..Len(RANKINGS) : RANKINGS[i] = c

-----------------------------------------------------------------------------
(* Text *)

Digits == <<"0", "1", "2", "3", "4", "5", "6", "7", "8", "9">>
IsDigitChar(c) == \E i \in 1..10 : Digits[i] = c
DigitValue(c) == (CHOOSE i \in 1..10 : Digits[i] = c) - 1

\* str.isdigit() / str.isnumeric() on ASCII text: non-empty, digits only
IsDigit(cs) == Len(cs) > 0 /\ \A i \in 1..Len(cs) : IsDigitChar(cs[i])

\* int(text) for text that isdigit()
RECURSIVE ToInt(_)
ToInt(cs) ==
    IF cs = <<>> THEN 0
    ELSE 10 * ToInt(SubSeq(cs, 1, Len(cs) - 1)) + DigitValue(cs[Len(cs)])

LowerCase == <<"a", "b", "c", "d", "e", "g", "l", "o", "p", "t", "u">>
UpperCase == <<"A", "B", "C", "D", "E", "G", "L", "O", "P", "T", "U">>
\* str.upper(), one character
UpperChar(c) ==
    IF \E i \in 1..Len(LowerCase) : LowerCase[i] = c
    THEN UpperCase[CHOOSE i \in 1..Len(LowerCase) : LowerCase[i] = c]
    ELSE c
Upper(cs) == [i \in 1..Len(cs) |-> UpperChar(cs[i])]

\* the str of a character sequence
RECURSIVE Str(_)
Str(cs) == IF cs = <<>> THEN "" ELSE Head(cs) \o Str(Tail(cs))

\* text.split(delimiter): the pieces between the delimiters, empty pieces kept
RECURSIVE SplitOn(_, _)
SplitOn(cs, delimiter) ==
    IF \A i \in 1..Len(cs) : cs[i] # delimiter THEN <<cs>>
    ELSE LET k == CHOOSE i \in 1..Len(cs) :
                    /\ cs[i] = delimiter
                    /\ \A j \in 1..(i - 1) : cs[j] # delimiter
         IN <<SubSeq(cs, 1, k - 1)>> \o SplitOn(SubSeq(cs, k + 1, Len(cs)), delimiter)

-----------------------------------------------------------------------------
(* utilities.py *)

\* list2strray: the items joined by DB_STRRAY_DELIMITER
list2strray(lst) == lst

\* strray2list: "".split("\t") is [""], not []
strray2list(strray) == IF strray = <<>> THEN <<"">> ELSE strray

\* read_rows: `parser(column) if column else None`; an empty column reads as None
NoneValue == <<"None">>
read_column(column) == IF column = <<>> THEN NoneValue ELSE strray2list(column)

IsLeap(y) == (y % 4 = 0 /\ y % 100 # 0) \/ y % 400 = 0

\* calendar.monthrange(y, m)[1]
DaysInMonth(y, m) ==
    IF m = 2 THEN (IF IsLeap(y) THEN 29 ELSE 28)
    ELSE IF m \in {4, 6, 9, 11} THEN 30 ELSE 31

\* date(y, m, d) raises ValueError outside these ranges
ValidDate(y, m, d) ==
    /\ y \in 1..9999
    /\ m \in 1..12
    /\ d \in 1..DaysInMonth(y, m)

MakeDate(y, m, d) == y * 10000 + m * 100 + d
YearOf(day) == day \div 10000
MonthOf(day) == (day \div 100) % 100
DayOf(day) == day % 100

beginning_year(year) == MakeDate(year, 1, 1)
end_year(year) == MakeDate(year, 12, 31)

-----------------------------------------------------------------------------
(* Spotify, as far as the code reads it.  The albums are fixed; the display  *)
(* name of an artist can change upstream.                                    *)

\* str(num) of a number that is not negative
RECURSIVE DigitsOf(_)
DigitsOf(num) ==
    IF num < 10 THEN Digits[num + 1] ELSE DigitsOf(num \div 10) \o Digits[(num % 10) + 1]

Artists == {"a1", "a2"}
\* the display name an artist starts with and the one the artist can change to
FirstName(a) == IF a = "a1" THEN "Ann" ELSE "Bob"
SecondName(a) == IF a = "a1" THEN "Amy" ELSE "Cal"
\* the names in the order Python compares them
NameOrder == <<"Amy", "Ann", "Bob", "Cal">>
NameIndex(n) == CHOOSE i \in 1..Len(NameOrder) : NameOrder[i] = n
IdOrder == <<"a1", "a2">>
IdIndex(a) == CHOOSE i \in 1..Len(IdOrder) : IdOrder[i] = a

Track(name, duration_ms, track_number, id) ==
    [name |-> name, duration_ms |-> duration_ms, track_number |-> track_number, id |-> id]

\* "2020-03-01", "2020-02", "2020", "2020-13"
Date_2020_03_01 == <<"2", "0", "2", "0", "-", "0", "3", "-", "0", "1">>
Date_2020_02 == <<"2", "0", "2", "0", "-", "0", "2">>
Date_2020 == <<"2", "0", "2", "0">>
Date_2020_13 == <<"2", "0", "2", "0", "-", "1", "3">>

\* "2019-05-05", "2020-01-01", "2020-01-15", "2020-06-01", "2021-02-02"
Date_2019_05_05 == <<"2", "0", "1", "9", "-", "0", "5", "-", "0", "5">>
Date_2020_01_01 == <<"2", "0", "2", "0", "-", "0", "1", "-", "0", "1">>
Date_2020_01_15 == <<"2", "0", "2", "0", "-", "0", "1", "-", "1", "5">>
Date_2020_06_01 == <<"2", "0", "2", "0", "-", "0", "6", "-", "0", "1">>
Date_2021_02_02 == <<"2", "0", "2", "1", "-", "0", "2", "-", "0", "2">>

AlbumIds == {"alb_S", "alb_S2", "alb_L", "alb_K", "alb_X",
             "alb_B", "alb_D1", "alb_D2", "alb_E", "alb_N", "alb_R", "alb_A", "alb_H"}

\* the tracks of an album of count tracks of 100 s, named and numbered 1 to count
Numbered(letter, count) ==
    [i \in 1..count |-> Track(letter \o DigitsOf(i), 100000, i, "t" \o letter \o DigitsOf(i))]

\* alb_S: a one-track single.  alb_S2: another Spotify album with the same
\* release day, artists and name.  alb_L: an album holding the single's track
\* (5.4 s longer).  alb_K: a collaboration whose track of the same name is 5 s
\* shorter than the single's, so 10.4 s shorter than the album's.  alb_X: an album whose release date does not parse.
\* alb_B: a box set of 79 tracks, one short of a season.  alb_D1 and alb_D2:
\* two releases of one day later in that year, of 1 and of 3 tracks.  alb_E and
\* alb_N: a release of the year before and one of the year after.  alb_R: the
\* second artist's own release of the collaboration's track (1 s longer).
\* alb_A: an album of the year after that holds the single's track.
\* alb_H: a collection of 161 tracks, more than two seasons, dated by its year.
SpotifyAlbum(id) ==
    CASE id = "alb_S" ->
           [id |-> "alb_S", release_date |-> Date_2020_03_01, artists |-> <<"a1">>,
            name |-> "Song",
            tracks |-> <<Track("Song", 200000, 1, "tS1")>>]
      [] id = "alb_S2" ->
           [id |-> "alb_S2", release_date |-> Date_2020_03_01, artists |-> <<"a1">>,
            name |-> "Song",
            tracks |-> <<Track("Song", 200900, 1, "tS2")>>]
      [] id = "alb_L" ->
           [id |-> "alb_L", release_date |-> Date_2020, artists |-> <<"a1">>,
            name |-> "Long",
            tracks |-> <<Track("Song", 205400, 1, "tL1"), Track("Two", 180000, 2, "tL2"),
                         Track("Three", 240000, 3, "tL3"), Track("Four", 180000, 4, "tL4"),
                         Track("Five", 300000, 5, "tL5")>>]
      [] id = "alb_K" ->
           [id |-> "alb_K", release_date |-> Date_2020_02, artists |-> <<"a2", "a1">>,
            name |-> "Kollab",
            tracks |-> <<Track("Song", 195000, 1, "tK1")>>]
      [] id = "alb_B" ->
           [id |-> "alb_B", release_date |-> Date_2020_01_15, artists |-> <<"a1">>,
            name |-> "Box", tracks |-> Numbered("B", 79)]
      [] id = "alb_D1" ->
           [id |-> "alb_D1", release_date |-> Date_2020_06_01, artists |-> <<"a1">>,
            name |-> "Day", tracks |-> Numbered("D", 1)]
      [] id = "alb_D2" ->
           [id |-> "alb_D2", release_date |-> Date_2020_06_01, artists |-> <<"a1">>,
            name |-> "Trio", tracks |-> Numbered("T", 3)]
      [] id = "alb_E" ->
           [id |-> "alb_E", release_date |-> Date_2019_05_05, artists |-> <<"a1">>,
            name |-> "Early", tracks |-> Numbered("E", 1)]
      [] id = "alb_N" ->
           [id |-> "alb_N", release_date |-> Date_2021_02_02, artists |-> <<"a1">>,
            name |-> "Next", tracks |-> Numbered("N", 1)]
      [] id = "alb_R" ->
           [id |-> "alb_R", release_date |-> Date_2020_03_01, artists |-> <<"a2">>,
            name |-> "Redo",
            tracks |-> <<Track("Song", 196000, 1, "tR1")>>]
      [] id = "alb_A" ->
           [id |-> "alb_A", release_date |-> Date_2021_02_02, artists |-> <<"a1">>,
            name |-> "Anthology",
            tracks |-> <<Track("Song", 200000, 1, "tA1"), Track("More", 150000, 2, "tA2")>>]
      [] id = "alb_H" ->
           [id |-> "alb_H", release_date |-> Date_2020_01_01, artists |-> <<"a1">>,
            name |-> "Huge", tracks |-> Numbered("H", 161)]
      [] id = "alb_X" ->
           [id |-> "alb_X", release_date |-> Date_2020_13, artists |-> <<"a1">>,
            name |-> "Xtra",
            tracks |-> <<Track("Xtra", 100000, 1, "tX1")>>]

\* api.album(uri): the album with the artists' current names
ApiAlbum(api, id) ==
    LET album == SpotifyAlbum(id)
    IN [album EXCEPT !.artists =
            [i \in 1..Len(album.artists) |->
                [name |-> api[album.artists[i]], id |-> album.artists[i]]]]

\* A project (a Mob of ss_projects): its name, its root album (NoUri when the
\* uri is None) and the tracks of the subject that belong to it
NoUri == ""
Project(name, root_album, objects) ==
    [name |-> name, root_album |-> root_album, objects |-> objects]

P_S == Project("Song", "alb_S", <<"tS1">>)
P_S2 == Project("Song", "alb_S2", <<"tS2">>)
P_L == Project("Long", "alb_L", <<"tL1", "tL2", "tL3", "tL4", "tL5">>)
P_L1 == Project("Long", "alb_L", <<"tL1">>)
P_L2 == Project("Long", "alb_L", <<"tL2">>)
P_K == Project("Kollab", "alb_K", <<"tK1">>)
P_X == Project("Xtra", "alb_X", <<"tX1">>)
P_R == Project("Redo", "alb_R", <<"tR1">>)
P_A == Project("Anthology", "alb_A", <<"tA1", "tA2">>)
P_Local == Project("Local", NoUri, <<"local1">>)
\* the whole of an album as a project
Whole(id) ==
    Project(SpotifyAlbum(id).name, id,
            [i \in 1..Len(SpotifyAlbum(id).tracks) |-> SpotifyAlbum(id).tracks[i].id])
P_B == Whole("alb_B")
P_D1 == Whole("alb_D1")
P_D2 == Whole("alb_D2")
P_E == Whole("alb_E")
P_N == Whole("alb_N")
P_H == Whole("alb_H")

-----------------------------------------------------------------------------
(* The catalog: db is the record of the tables one connection works on *)

Tables(rk, ct, ag, sg) ==
    [ranking |-> rk, certification |-> ct, helper_artist_group |-> ag, helper_single |-> sg]

\* PRIMARY KEY of ranking and of certification (_dbinit.py)
RankingKey(r) == <<r.release_day, r.artist_names, r.name>>
CertificationKey(r) == <<r.release_day, r.artist_names, r.name, r.classification>>
\* PRIMARY KEY of helper_single
SingleKey(s) == <<s.single_release_day, s.artist_names, s.single_name, s.single_track_names>>

RankingKeysUnique(table) ==
    \A r, s \in table : RankingKey(r) = RankingKey(s) => r = s
CertificationKeysUnique(table) ==
    \A r, s \in table : CertificationKey(r) = CertificationKey(s) => r = s

\* timedelta(milliseconds=ms).seconds
Seconds(ms) == (ms \div 1000) % 86400

\* The column values of the INSERT in _classify_project: durations are stored as
\* whole seconds
StoredRow(row) ==
    [release_day |-> row.release_day,
     artist_names |-> row.artist_names,
     name |-> row.name,
     classification |-> row.classification,
     track_names |-> list2strray(row.track_names),
     track_durations_sec |->
        list2strray([i \in 1..Len(row.track_durations) |-> Seconds(row.track_durations[i])]),
     track_numbers |-> list2strray(row.track_numbers),
     retrieved_time |-> row.retrieved_time,
     artist_group |-> row.artist_group,
     album_spotify_id |-> row.album_spotify_id,
     track_spotify_ids |-> list2strray(row.track_spotify_ids)]

-----------------------------------------------------------------------------
(* Artist grouping *)

\* sorted(...) of (name, id) pairs
PairLess(p, q) ==
    \/ NameIndex(p.name) < NameIndex(q.name)
    \/ p.name = q.name /\ IdIndex(p.id) < IdIndex(q.id)

RECURSIVE SortPairs(_)
SortPairs(S) ==
    IF S = {} THEN <<>>
    ELSE LET m == CHOOSE p \in S : \A q \in S \ {p} : PairLess(p, q)
         IN <<m>> \o SortPairs(S \ {m})

\* SQL replace(artist_names, old, new) on the joined names; no name of the model
\* is part of another name, so the text is replaced item by item
ReplaceName(names, old, new) ==
    [i \in 1..Len(names) |-> IF names[i] = old THEN new ELSE names[i]]

\* The three UPDATEs of a confirmed rename
RenameCascade(db, old, new, artist_spotify_id) ==
    [db EXCEPT
        !.ranking = {[r EXCEPT !.artist_names = ReplaceName(@, old, new)] : r \in @},
        !.certification = {[r EXCEPT !.artist_names = ReplaceName(@, old, new)] : r \in @},
        !.helper_artist_group =
            {IF g.artist_spotify_id = artist_spotify_id
             THEN [g EXCEPT !.artist_name = new] ELSE g : g \in @}]

\* an UPDATE that makes two rows share a primary key raises IntegrityError
RenameCollides(db, old, new) ==
    \/ \E r, s \in db.ranking :
          /\ r # s
          /\ RankingKey([r EXCEPT !.artist_names = ReplaceName(@, old, new)])
                = RankingKey([s EXCEPT !.artist_names = ReplaceName(@, old, new)])
    \/ \E r, s \in db.certification :
          /\ r # s
          /\ CertificationKey([r EXCEPT !.artist_names = ReplaceName(@, old, new)])
                = CertificationKey([s EXCEPT !.artist_names = ReplaceName(@, old, new)])

GroupOk(db) == [ok |-> TRUE, error |-> "", db |-> db]
GroupError(db, error) == [ok |-> FALSE, error |-> error, db |-> db]

\* `for artist_spotify_id in old`: the rows come in the order the SELECT yields
\* them, which SQL leaves open; the result is the set of the possible outcomes.
\* db is the connection's working state when the loop ends or raises.
RECURSIVE RenameLoop(_, _, _, _, _)
RenameLoop(db, ids, old, new, confirm) ==
    IF ids = {} THEN {GroupOk(db)}
    ELSE UNION {
           IF a \notin DOMAIN new THEN {GroupError(db, "KeyError")}
           ELSE IF old[a] = new[a] THEN RenameLoop(db, ids \ {a}, old, new, confirm)
           ELSE IF ~confirm[a] THEN {GroupError(db, "UnexpectedResponseException")}
           ELSE IF RenameCollides(db, old[a], new[a]) THEN {GroupError(db, "IntegrityError")}
           ELSE RenameLoop(RenameCascade(db, old[a], new[a], a), ids \ {a}, old, new, confirm)
           : a \in ids}

\* artists: the sorted sequence of [name, id]
_classify_store_artist_group(db, artist_group, artists, confirm) ==
    LET existing_rows == {g \in db.helper_artist_group : g.artist_group = artist_group}
        artist_set == {artists[i] : i \in 1..Len(artists)}
        existing_set == {[name |-> g.artist_name, id |-> g.artist_spotify_id] : g \in existing_rows}
        old == [a \in {p.id : p \in existing_set} |->
                    (CHOOSE p \in existing_set : p.id = a).name]
        new == [a \in {p.id : p \in artist_set} |->
                    (CHOOSE p \in artist_set : p.id = a).name]
    IN IF existing_rows = {}
       THEN {GroupOk([db EXCEPT !.helper_artist_group = @ \cup
                {[artist_group |-> artist_group, artist_name |-> p.name,
                  artist_spotify_id |-> p.id] : p \in artist_set}])}
       ELSE IF existing_set = artist_set THEN {GroupOk(db)}
       ELSE RenameLoop(db, DOMAIN old, old, new, confirm)

-----------------------------------------------------------------------------
(* Building a row *)

ParseFailed == [ok |-> FALSE, day |-> 0]
ParsedDay(day) == [ok |-> TRUE, day |-> day]

\* release_date: the pieces of album["release_date"].split("-"); int() and
\* date() raise ValueError, which becomes UnexpectedResponseException
_classify_parse_release(release_date) ==
    IF \E i \in 1..Len(release_date) : ~IsDigit(release_date[i]) THEN ParseFailed
    ELSE IF Len(release_date) = 3 THEN
        LET yr == ToInt(release_date[1])
            mo == ToInt(release_date[2])
            da == ToInt(release_date[3])
        IN IF ValidDate(yr, mo, da) THEN ParsedDay(MakeDate(yr, mo, da)) ELSE ParseFailed
    ELSE IF Len(release_date) = 2 THEN
        LET yr == ToInt(release_date[1])
            mo == ToInt(release_date[2])
        IN IF yr \in 1..9999 /\ mo \in 1..12
           THEN ParsedDay(MakeDate(yr, mo, DaysInMonth(yr, mo))) ELSE ParseFailed
    ELSE IF Len(release_date) = 1 THEN
        LET yr == ToInt(release_date[1])
        IN IF yr \in 1..9999 THEN ParsedDay(end_year(yr)) ELSE ParseFailed
    ELSE ParseFailed

Built(db, row) == [ok |-> TRUE, error |-> "", db |-> db, row |-> <<row>>]
NotBuilt(db, error) == [ok |-> FALSE, error |-> error, db |-> db, row |-> <<>>]

\* _classify_build_row with the row's tracks taken once per requested id rather
\* than once per track of the album
BuildRowPerObject(api, db, classification, project, retrieved_time, confirm) ==
    LET album == ApiAlbum(api, project.root_album)
        release == _classify_parse_release(SplitOn(album.release_date, SPOTIFY_DATE_DELIMITER))
        artist_zip == SortPairs({album.artists[i] : i \in 1..Len(album.artists)})
        artist_names == list2strray([i \in 1..Len(artist_zip) |-> artist_zip[i].name])
        artist_group == list2strray([i \in 1..Len(artist_zip) |-> artist_zip[i].id])
        track(i) == CHOOSE t \in {album.tracks[k] : k \in 1..Len(album.tracks)} :
                        t.id = project.objects[i]
        tracks == [i \in 1..Len(project.objects) |-> track(i)]
        row == [release_day |-> release.day,
                artist_names |-> artist_names,
                name |-> album.name,
                classification |-> classification,
                track_names |-> [i \in 1..Len(tracks) |-> tracks[i].name],
                track_durations |-> [i \in 1..Len(tracks) |-> tracks[i].duration_ms],
                track_numbers |-> [i \in 1..Len(tracks) |-> tracks[i].track_number],
                retrieved_time |-> retrieved_time,
                artist_group |-> artist_group,
                album_spotify_id |-> album.id,
                track_spotify_ids |-> [i \in 1..Len(tracks) |-> tracks[i].id]]
    IN IF ~release.ok THEN {NotBuilt(db, "UnexpectedResponseException")}
       ELSE {IF g.ok THEN Built(g.db, row) ELSE NotBuilt(g.db, g.error) :
                g \in _classify_store_artist_group(db, artist_group, artist_zip, confirm)}

\* The possible results of _classify_build_row; retrieved_time is what
\* datetime.now() returns, confirm the answers io_confirm gets per artist id
_classify_build_row(api, db, classification, project, retrieved_time, confirm) ==
    LET album == ApiAlbum(api, project.root_album)
        release == _classify_parse_release(SplitOn(album.release_date, SPOTIFY_DATE_DELIMITER))
        artist_zip == SortPairs({album.artists[i] : i \in 1..Len(album.artists)})
        artist_names == list2strray([i \in 1..Len(artist_zip) |-> artist_zip[i].name])
        artist_group == list2strray([i \in 1..Len(artist_zip) |-> artist_zip[i].id])
        included(t) == \E i \in 1..Len(project.objects) : project.objects[i] = t.id
        tracks == SelectSeq(album.tracks, included)
        row == [release_day |-> release.day,
                artist_names |-> artist_names,
                name |-> album.name,
                classification |-> classification,
                track_names |-> [i \in 1..Len(tracks) |-> tracks[i].name],
                track_durations |-> [i \in 1..Len(tracks) |-> tracks[i].duration_ms],
                track_numbers |-> [i \in 1..Len(tracks) |-> tracks[i].track_number],
                retrieved_time |-> retrieved_time,
                artist_group |-> artist_group,
                album_spotify_id |-> album.id,
                track_spotify_ids |-> [i \in 1..Len(tracks) |-> tracks[i].id]]
    IN IF ~release.ok THEN {NotBuilt(db, "UnexpectedResponseException")}
       ELSE {IF g.ok THEN Built(g.db, row) ELSE NotBuilt(g.db, g.error) :
                g \in _classify_store_artist_group(db, artist_group, artist_zip, confirm)}

-----------------------------------------------------------------------------
(* Single check *)

\* list.index(x): the first position of x
IndexOf(seq, x) == CHOOSE i \in 1..Len(seq) : seq[i] = x /\ \A j \in 1..(i - 1) : seq[j] # x
Member(seq, x) == \E i \in 1..Len(seq) : seq[i] = x
Abs(n) == IF n < 0 THEN -n ELSE n

\* durations in whole seconds (timedelta.seconds)
_classify_is_single(single_names, single_durations, album_names, album_durations) ==
    \A k \in 1..Len(single_names) :
        LET name == single_names[k]
        IN /\ Member(album_names, name)
           /\ Abs(album_durations[IndexOf(album_names, name)]
                    - single_durations[IndexOf(single_names, name)]) <= 5

\* INSERT INTO helper_single, ON CONFLICT REPLACE
_classify_store_single(db, single_release_day, artist_names, single_name, album_release_day, album_name, single_track_names, album_track_names) ==
    LET link == [single_release_day |-> single_release_day,
                 artist_names |-> artist_names,
                 single_name |-> single_name,
                 album_release_day |-> album_release_day,
                 album_name |-> album_name,
                 single_track_names |-> list2strray(single_track_names),
                 album_track_names |-> list2strray(album_track_names)]
    IN [db EXCEPT !.helper_single =
            {s \in @ : SingleKey(s) # SingleKey(link)} \cup {link}]

_classify_delete_single(db, release, artist_names, name) ==
    [db EXCEPT !.ranking =
        {r \in @ : ~(/\ r.release_day = release
                     /\ r.artist_names = list2strray(artist_names)
                     /\ r.name = name)}]

Checked(db, row) == [db |-> db, row |-> <<row>>, notified |-> {}]
Dropped(db, notified) == [db |-> db, row |-> <<>>, notified |-> notified]

\* The loop body with the first comparison strict: an existing single ranked
\* the same as the new album is linked, not deleted
SingleCheckBodyStrict(db, row, ex) ==
    LET new_classification == row.classification
        new_names == row.track_names
        new_durations == [i \in 1..Len(row.track_durations) |-> Seconds(row.track_durations[i])]
        ex_artists == read_column(ex.artist_names)
        ex_names == read_column(ex.track_names)
        ex_durations == ex.track_durations_sec
    IN IF _classify_is_single(ex_names, ex_durations, new_names, new_durations)
       THEN IF InRankings(new_classification)
                /\ RankIndex(new_classification) > RankIndex(ex.classification)
            THEN [abort |-> FALSE,
                  db |-> _classify_delete_single(db, ex.release_day, ex_artists, ex.name)]
            ELSE [abort |-> FALSE,
                  db |-> _classify_store_single(db, ex.release_day, list2strray(ex_artists),
                            ex.name, row.release_day, row.name, ex_names, new_names)]
       ELSE IF _classify_is_single(new_names, new_durations, ex_names, ex_durations)
       THEN IF InRankings(new_classification)
                /\ RankIndex(ex.classification) >= RankIndex(new_classification)
            THEN [abort |-> TRUE, db |-> db]
            ELSE [abort |-> FALSE,
                  db |-> _classify_store_single(db, row.release_day, row.artist_names,
                            row.name, ex.release_day, ex.name, new_names, ex_names)]
       ELSE [abort |-> FALSE, db |-> db]

\* The loop body without the early return: a new single is linked to the
\* album that holds it whatever their rankings
SingleCheckBodyNoReturn(db, row, ex) ==
    LET new_classification == row.classification
        new_names == row.track_names
        new_durations == [i \in 1..Len(row.track_durations) |-> Seconds(row.track_durations[i])]
        ex_artists == read_column(ex.artist_names)
        ex_names == read_column(ex.track_names)
        ex_durations == ex.track_durations_sec
    IN IF _classify_is_single(ex_names, ex_durations, new_names, new_durations)
       THEN IF InRankings(new_classification)
                /\ RankIndex(new_classification) >= RankIndex(ex.classification)
            THEN [abort |-> FALSE,
                  db |-> _classify_delete_single(db, ex.release_day, ex_artists, ex.name)]
            ELSE [abort |-> FALSE,
                  db |-> _classify_store_single(db, ex.release_day, list2strray(ex_artists),
                            ex.name, row.release_day, row.name, ex_names, new_names)]
       ELSE IF _classify_is_single(new_names, new_durations, ex_names, ex_durations)
       THEN [abort |-> FALSE,
             db |-> _classify_store_single(db, row.release_day, row.artist_names,
                       row.name, ex.release_day, ex.name, new_names, ex_names)]
       ELSE [abort |-> FALSE, db |-> db]

\* One pass of the loop body of _classify_single_check for the existing record ex:
\* the working state after it and whether the function returned None in it
SingleCheckBody(db, row, ex) ==
    LET new_classification == row.classification
        new_names == row.track_names
        new_durations == [i \in 1..Len(row.track_durations) |-> Seconds(row.track_durations[i])]
        ex_artists == read_column(ex.artist_names)
        ex_names == read_column(ex.track_names)
        ex_durations == ex.track_durations_sec
    IN IF _classify_is_single(ex_names, ex_durations, new_names, new_durations)
       THEN IF InRankings(new_classification)
                /\ RankIndex(new_classification) >= RankIndex(ex.classification)
            THEN [abort |-> FALSE,
                  db |-> _classify_delete_single(db, ex.release_day, ex_artists, ex.name)]
            ELSE [abort |-> FALSE,
                  db |-> _classify_store_single(db, ex.release_day, list2strray(ex_artists),
                            ex.name, row.release_day, row.name, ex_names, new_names)]
       ELSE IF _classify_is_single(new_names, new_durations, ex_names, ex_durations)
       THEN IF InRankings(new_classification)
                /\ RankIndex(ex.classification) >= RankIndex(new_classification)
            THEN [abort |-> TRUE, db |-> db]
            ELSE [abort |-> FALSE,
                  db |-> _classify_store_single(db, row.release_day, row.artist_names,
                            row.name, ex.release_day, ex.name, new_names, ex_names)]
       ELSE [abort |-> FALSE, db |-> db]

\* `for ... in existing_projects`: the SELECT has no ORDER BY; sqlite scans
\* ranking in rowid order, which is the order of insertion, and every insertion
\* reads a later clock
FirstRow(rows) == CHOOSE r \in rows : \A s \in rows : r.retrieved_time <= s.retrieved_time

RECURSIVE SingleCheckLoop(_, _, _)
SingleCheckLoop(db, row, existing_projects) ==
    IF existing_projects = {} THEN Checked(db, row)
    ELSE LET ex == FirstRow(existing_projects)
             body == SingleCheckBody(db, row, ex)
         IN IF body.abort THEN Dropped(body.db, {})
            ELSE SingleCheckLoop(body.db, row, existing_projects \ {ex})

\* The ranking records joined with helper_artist_group on the first id of the
\* new row's artist group
SingleCheckJoin(db, row) ==
    {r \in db.ranking :
        \E g \in db.helper_artist_group :
            /\ g.artist_group = r.artist_group
            /\ g.artist_spotify_id = strray2list(row.artist_group)[1]}

_classify_single_check(db, row) == SingleCheckLoop(db, row, SingleCheckJoin(db, row))

-----------------------------------------------------------------------------
(* Ranking and certifying *)

\* _classify_rank that never compares the album ids: a record of another
\* album under the same key is re-ranked or skipped like the release's own
RankIgnoresAlbum(db, row) ==
    LET existing == {r \in db.ranking : RankingKey(r) = RankingKey(row)}
        existing_row == CHOOSE r \in existing : TRUE
    IN IF existing = {} THEN _classify_single_check(db, row)
       ELSE IF /\ existing_row.classification # row.classification
               /\ Len(existing_row.track_durations_sec) - Len(row.track_durations) < 4
       THEN [_classify_single_check(
                [db EXCEPT !.ranking = {r \in @ : RankingKey(r) # RankingKey(row)}], row)
             EXCEPT !.notified = @ \cup {"re-ranked"}]
       ELSE Dropped(db, {})

\* _classify_rank with a re-rank that leaves the old record in place
RankWithoutDelete(db, row) ==
    LET existing == {r \in db.ranking : RankingKey(r) = RankingKey(row)}
        existing_row == CHOOSE r \in existing : TRUE
    IN IF existing = {} THEN _classify_single_check(db, row)
       ELSE IF /\ existing_row.album_spotify_id = row.album_spotify_id
               /\ existing_row.classification # row.classification
               /\ Len(existing_row.track_durations_sec) - Len(row.track_durations) < 4
       THEN [_classify_single_check(db, row) EXCEPT !.notified = @ \cup {"re-ranked"}]
       ELSE IF existing_row.album_spotify_id # row.album_spotify_id
       THEN Dropped(db, {"conflict"})
       ELSE Dropped(db, {})

\* _classify_rank without the branch that skips a release already ranked
RankWithoutSkip(db, row) ==
    LET existing == {r \in db.ranking : RankingKey(r) = RankingKey(row)}
        existing_row == CHOOSE r \in existing : TRUE
    IN IF existing = {} THEN _classify_single_check(db, row)
       ELSE IF /\ existing_row.album_spotify_id = row.album_spotify_id
               /\ existing_row.classification # row.classification
               /\ Len(existing_row.track_durations_sec) - Len(row.track_durations) < 4
       THEN [_classify_single_check(
                [db EXCEPT !.ranking = {r \in @ : RankingKey(r) # RankingKey(row)}], row)
             EXCEPT !.notified = @ \cup {"re-ranked"}]
       ELSE IF existing_row.album_spotify_id # row.album_spotify_id
       THEN Dropped(db, {"conflict"})
       ELSE _classify_single_check(db, row)

\* The result of _classify_rank: the working state, the row to insert (none
\* when the function returns None) and what io_notify was told
_classify_rank(db, row) ==
    LET existing == {r \in db.ranking : RankingKey(r) = RankingKey(row)}
        existing_row == CHOOSE r \in existing : TRUE
    IN IF existing = {} THEN _classify_single_check(db, row)
       ELSE IF /\ existing_row.album_spotify_id = row.album_spotify_id
               /\ existing_row.classification # row.classification
               /\ Len(existing_row.track_durations_sec) - Len(row.track_durations) < 4
       THEN [_classify_single_check(
                [db EXCEPT !.ranking = {r \in @ : RankingKey(r) # RankingKey(row)}], row)
             EXCEPT !.notified = @ \cup {"re-ranked"}]
       ELSE IF existing_row.album_spotify_id # row.album_spotify_id
       THEN Dropped(db, {"conflict"})
       ELSE Dropped(db, {})

Certified(db, row, builds) ==
    [ok |-> TRUE, error |-> "", db |-> db, row |-> <<row>>, notified |-> {}, builds |-> builds]
NotCertified(db, error, notified, builds) ==
    [ok |-> error = "", error |-> error, db |-> db, row |-> <<>>, notified |-> notified,
     builds |-> builds]

\* _classify_certify with a merge rebuilt from the new track ids alone
CertifyKeepsNew(api, db, row, retrieved_time, confirm) ==
    LET existing == {r \in db.certification : CertificationKey(r) = CertificationKey(row)}
        existing_row == CHOOSE r \in existing : TRUE
    IN IF existing = {} THEN {Certified(db, row, 0)}
       ELSE IF existing_row.album_spotify_id = row.album_spotify_id
       THEN {IF b.ok THEN Certified(b.db, b.row[1], 1)
                     ELSE NotCertified(b.db, b.error, {}, 1) :
                b \in _classify_build_row(
                        api,
                        [db EXCEPT !.certification =
                            {r \in @ : CertificationKey(r) # CertificationKey(row)}],
                        row.classification,
                        Project(row.name, row.album_spotify_id, row.track_spotify_ids),
                        retrieved_time,
                        confirm)}
       ELSE {NotCertified(db, "", {"conflict"}, 0)}

\* The possible results of _classify_certify; builds counts the rows it built
\* (a merge rebuilds the row from the album and the combined track ids)
_classify_certify(api, db, row, retrieved_time, confirm) ==
    LET existing == {r \in db.certification : CertificationKey(r) = CertificationKey(row)}
        existing_row == CHOOSE r \in existing : TRUE
        all_track_ids == read_column(existing_row.track_spotify_ids) \o row.track_spotify_ids
    IN IF existing = {} THEN {Certified(db, row, 0)}
       ELSE IF existing_row.album_spotify_id = row.album_spotify_id
       THEN {IF b.ok THEN Certified(b.db, b.row[1], 1)
                     ELSE NotCertified(b.db, b.error, {}, 1) :
                b \in _classify_build_row(
                        api,
                        [db EXCEPT !.certification =
                            {r \in @ : CertificationKey(r) # CertificationKey(row)}],
                        row.classification,
                        Project(row.name, row.album_spotify_id, all_track_ids),
                        retrieved_time,
                        confirm)}
       ELSE {NotCertified(db, "", {"conflict"}, 0)}

\* What one _classify_project leaves: the connection's working state, the
\* exception that left it ("" when none), the record inserted, the
\* notifications, and how often datetime.now() was read
Classified(db, error, inserted, notified, builds) ==
    [db |-> db, error |-> error, inserted |-> inserted, notified |-> notified,
     builds |-> builds]

\* INSERT INTO ranking / certification: a taken primary key raises IntegrityError
InsertRow(db, target_table, row, notified, builds) ==
    LET record == StoredRow(row)
    IN IF target_table = "ranking"
       THEN IF \E r \in db.ranking : RankingKey(r) = RankingKey(record)
            THEN Classified(db, "IntegrityError", <<>>, notified, builds)
            ELSE Classified([db EXCEPT !.ranking = @ \cup {record}], "", <<record>>,
                            notified, builds)
       ELSE IF \E r \in db.certification : CertificationKey(r) = CertificationKey(record)
            THEN Classified(db, "IntegrityError", <<>>, notified, builds)
            ELSE Classified([db EXCEPT !.certification = @ \cup {record}], "", <<record>>,
                            notified, builds)

\* The ranking branch of _classify_project for the built row b: _classify_rank,
\* then the INSERT unless it returned None
Ranked(b) ==
    LET o == _classify_rank(b.db, b.row[1])
    IN IF o.row = <<>> THEN Classified(o.db, "", <<>>, o.notified, 1)
       ELSE InsertRow(o.db, "ranking", o.row[1], o.notified, 1)

\* The certification branch of _classify_project for the built row b:
\* _classify_certify, then the INSERT unless it returned None
Certify(api, b, clock, confirm) ==
    {IF ~c.ok THEN Classified(c.db, c.error, <<>>, c.notified, 1 + c.builds)
     ELSE IF c.row = <<>> THEN Classified(c.db, "", <<>>, c.notified, 1 + c.builds)
     ELSE InsertRow(c.db, "certification", c.row[1], c.notified, 1 + c.builds) :
        c \in _classify_certify(api, b.db, b.row[1], clock + 1, confirm)}

\* clock: what datetime.now() returns when the project's row is built
_classify_project(api, db, proj, classification, clock, confirm) ==
    IF proj.root_album = NoUri THEN {Classified(db, "", <<>>, {}, 0)}
    ELSE UNION {
        IF ~b.ok THEN {Classified(b.db, b.error, <<>>, {}, 1)}
        ELSE IF InRankings(classification)
        THEN {Ranked(b)}
        ELSE Certify(api, b, clock, confirm)
        : b \in _classify_build_row(api, db, classification, proj, clock, confirm)}

-----------------------------------------------------------------------------
(* ss_classify *)

\* query.split(): the words between runs of blanks
NonEmpty(w) == w # <<>>
Words(q) == SelectSeq(SplitOn(q, " "), NonEmpty)

Q_A == <<"A">>
Q_b == <<"b">>
Q_C == <<"C">>
Q_E == <<"E">>
Q_gold == <<"g", "o", "l", "d">>
Q_CHRISTMAS == <<"C", "H", "R", "I", "S", "T", "M", "A", "S">>
Q_3 == <<"3">>

\* A connection closed on an exception without rolling back
RollbackSkipped(opened, working) == working

\* The `with sql.connect(...)` block of ss_classify leaves on an exception:
\* the connection rolls back to the state it was opened on
Rollback(opened, working) == opened

Db == Tables(ranking, certification, helper_artist_group, helper_single)

Last(op, project, classification, error, inserted, notified) ==
    [op |-> op, project |-> project, classification |-> classification,
     error |-> error, inserted |-> inserted, notified |-> notified,
     query |-> <<>>, subject |-> "", log |-> <<>>, ranges |-> <<>>]

NoProject == Project("", NoUri, <<>>)

\* The answers io_confirm can get: one per artist it is asked about, which are
\* the artists of the project's album stored under another name
Asked(db, api, project) ==
    IF project.root_album = NoUri THEN {}
    ELSE {a \in Artists :
            /\ \E i \in 1..Len(SpotifyAlbum(project.root_album).artists) :
                  SpotifyAlbum(project.root_album).artists[i] = a
            /\ \E g \in db.helper_artist_group :
                  g.artist_spotify_id = a /\ g.artist_name # api[a]}
Answers(db, api, project) ==
    {confirm \in [Artists -> BOOLEAN] :
        \A a \in Artists \ Asked(db, api, project) : confirm[a]}

\* One pass of the loop of ss_classify, for the first project of projs
ClassifyIteration(projs, q) ==
    LET project == Head(projs)
        classification == Upper(Words(q)[1])
    IN IF IsDigit(classification)
       THEN /\ UNCHANGED <<ranking, certification, helper_artist_group, helper_single, now>>
            /\ projects' = <<>>
            /\ query' = <<>>
            /\ last' = Last("classify", project, Str(classification),
                            "UnsupportedQueryError", <<>>, {})
       ELSE \E confirm \in Answers(Db, artist_name, project) :
            \E o \in _classify_project(artist_name, Db, project, Str(classification),
                                       now, confirm) :
              LET caught == o.error = "UnexpectedResponseException"
                  raised == o.error # "" /\ ~caught
                  closed == IF o.error = "" THEN o.db ELSE Rollback(Db, o.db)
                  rest == IF raised THEN <<>> ELSE Tail(projs)
              IN /\ ranking' = closed.ranking
                 /\ certification' = closed.certification
                 /\ helper_artist_group' = closed.helper_artist_group
                 /\ helper_single' = closed.helper_single
                 /\ now' = now + o.builds
                 /\ projects' = rest
                 /\ query' = IF rest = <<>> THEN <<>> ELSE q
                 /\ last' = Last("classify", project, Str(classification), o.error,
                                 IF o.error = "" THEN o.inserted ELSE <<>>,
                                 IF caught THEN {"Could not classify"} ELSE o.notified)

\* ss_classify(subject, query) up to the end of its first pass
ClassifyCall(Subjects, Queries, bound) ==
    /\ projects = <<>>
    /\ \E subject \in Subjects, q \in Queries :
          /\ now < bound
          /\ ClassifyIteration(subject, q)
    /\ UNCHANGED <<helper_artist_score, season, playlist, artist_name>>

\* the later passes of the loop
ss_classify_loop ==
    /\ projects # <<>>
    /\ ClassifyIteration(projects, query)
    /\ UNCHANGED <<helper_artist_score, season, playlist, artist_name>>

\* An artist changes the display name on Spotify
SpotifyRename ==
    /\ projects = <<>>
    /\ \E a \in Artists :
          /\ artist_name[a] = FirstName(a)
          /\ artist_name' = [artist_name EXCEPT ![a] = SecondName(a)]
    /\ last' = Last("rename", NoProject, "", "", <<>>, {})
    /\ UNCHANGED <<ranking, certification, helper_artist_group, helper_single,
                   helper_artist_score, season, playlist, now, projects, query>>

-----------------------------------------------------------------------------
(* ss_season: the query *)

\* What a token of a season query parses to: a str (its characters), a tuple
\* (min, max) of years, or an int
StrToken(text) == [kind |-> "str", text |-> text, min |-> 0, max |-> 0, num |-> 0]
TupleToken(min, max) == [kind |-> "tuple", text |-> <<>>, min |-> min, max |-> max, num |-> 0]
IntToken(num) == [kind |-> "int", text |-> <<>>, min |-> 0, max |-> 0, num |-> num]

_season_parse_token(token) ==
    LET pieces == SplitOn(token, "-")
    IN IF /\ Len(pieces) = 2
          /\ Len(pieces[2]) = 2 /\ Len(pieces[1]) = 4
          /\ IsDigit(pieces[2]) /\ IsDigit(pieces[1])
       THEN TupleToken(ToInt(pieces[1]), ToInt(SubSeq(pieces[1], 1, 2) \o pieces[2]))
       ELSE IF /\ Len(pieces) = 2
               /\ Len(pieces[2]) = 4 /\ Len(pieces[1]) = 4
               /\ IsDigit(pieces[2]) /\ IsDigit(pieces[1])
       THEN TupleToken(ToInt(pieces[1]), ToInt(pieces[2]))
       ELSE IF Len(pieces) = 1 /\ IsDigit(pieces[1]) /\ Len(pieces[1]) = 4
       THEN TupleToken(ToInt(pieces[1]), ToInt(pieces[1]))
       ELSE IF Len(pieces) = 1 /\ IsDigit(pieces[1]) /\ Len(pieces[1]) < 4
       THEN IntToken(ToInt(pieces[1]))
       ELSE StrToken(token)

\* " ".join(texts)
RECURSIVE JoinTexts(_)
JoinTexts(tokens) ==
    IF Len(tokens) = 1 THEN tokens[1].text
    ELSE tokens[1].text \o <<" ">> \o JoinTexts(Tail(tokens))

Parsed(groups) == [ok |-> TRUE, groups |-> groups]
\* the TypeError of the join, raised as UnsupportedQueryError
NotParsed == [ok |-> FALSE, groups |-> <<>>]

\* The generator of _season_parse_query over the tokens still to come: the
\* first str that is no keyword takes every later token into its text
RECURSIVE ParseTokens(_)
ParseTokens(query_tokens) ==
    IF query_tokens = <<>> THEN Parsed(<<>>)
    ELSE LET token == Head(query_tokens)
         IN IF token.kind = "str" /\ Str(token.text) \notin SEASON_KEYWORDS
            THEN IF \A i \in 1..Len(query_tokens) : query_tokens[i].kind = "str"
                 THEN Parsed(<<StrToken(Upper(JoinTexts(query_tokens)))>>)
                 ELSE NotParsed
            ELSE LET rest == ParseTokens(Tail(query_tokens))
                 IN IF rest.ok THEN Parsed(<<token>> \o rest.groups) ELSE NotParsed

\* list(_season_parse_query(query))
ParseWords(words) ==
    CHOOSE parsed \in {ParseTokens(query_tokens) : query_tokens \in
                        {[i \in 1..Len(words) |-> _season_parse_token(words[i])]}} : TRUE

_season_parse_query(q) == CHOOSE parsed \in {ParseWords(words) : words \in {Words(q)}} : TRUE

\* the pattern "update" of the match statement
IsUpdate(group) == group.kind = "str" /\ Str(group.text) = "update"

\* The case of the match statement in ss_season that takes the parsed query
SeasonCase(groups) ==
    IF Len(groups) = 2 /\ IsUpdate(groups[1]) /\ groups[2].kind = "tuple"
          /\ groups[2].min = groups[2].max
    THEN "update year"
    ELSE IF Len(groups) = 2 /\ IsUpdate(groups[1]) /\ groups[2].kind = "tuple"
    THEN "update years"
    ELSE IF Len(groups) = 1 /\ IsUpdate(groups[1])
    THEN "update all"
    ELSE IF Len(groups) = 3 /\ IsUpdate(groups[1]) /\ groups[2].kind = "tuple"
              /\ groups[3].kind \in {"int", "str"}
    THEN "upload range"
    ELSE IF Len(groups) = 2 /\ IsUpdate(groups[1]) /\ groups[2].kind = "str"
    THEN "upload unbounded"
    ELSE IF Len(groups) = 2 /\ groups[1].kind = "tuple" /\ groups[2].kind = "int"
    THEN "create slot"
    ELSE IF Len(groups) = 2 /\ groups[1].kind = "tuple" /\ groups[2].kind = "str"
    THEN "create range"
    ELSE IF Len(groups) = 1 /\ groups[1].kind = "str"
    THEN "create unbounded"
    ELSE "unsupported"

-----------------------------------------------------------------------------
(* stats.py: the artist scores. A score is kept as an integer, the float of *)
(* the code times ScoreUnit, so that 1.8, 4.2, a duration over 3 min 30 s   *)
(* and a duration in minutes are all exact.                                 *)

ScoreUnit == 10 * 420

\* RANK_VALUE, in tenths
RANK_VALUE == [A |-> 18, B |-> 10, C |-> 2]

\* the keys of CERT_VALUE (U+1F4BF, U+1F58C, U+1F502)
CERT_DISC == "U+1F4BF"
CERT_BRUSH == "U+1F58C"
CERT_REPEAT == "U+1F502"

\* sum of the values of a function over a finite set: the values above 0
\* counted as the copies of a bag, less those below 0
SumValues(f) ==
    BagCardinality([x \in {y \in DOMAIN f : f[y] > 0} |-> f[x]])
        - BagCardinality([x \in {y \in DOMAIN f : f[y] < 0} |-> 0 - f[x]])

\* sum(track_durations_seconds): over a sequence, every entry counts
SumSeq(durations) == SumValues(durations)

\* _c_score_project_value times 420: the durations go through set(), so equal
\* durations count once, in the length and in the sum
_c_score_project_value(track_durations_seconds) ==
    LET track_durations == {track_durations_seconds[i] :
                                i \in 1..Len(track_durations_seconds)}
        project_length == Cardinality(track_durations)
        project_duration_seconds == SumValues([d \in track_durations |-> d])
    IN IF project_length < 5 /\ project_duration_seconds < 15 * 60
       THEN 420 * project_length
       ELSE LET bonus == IF 15 * 60 <= project_duration_seconds
                            /\ project_duration_seconds < 63 * 60
                         THEN 2 ELSE 1
            IN 2 * project_duration_seconds + 420 * bonus

\* abs(standard_value - RANK_VALUE[ranking] * value), times ScoreUnit
_c_score_standard_certification_value(standard_value, rank, tracks) ==
    Abs(ScoreUnit * standard_value - RANK_VALUE[rank] * _c_score_project_value(tracks))

\* CERT_VALUE[classification](tracks), times ScoreUnit
CERT_VALUE(classification, tracks) ==
    IF classification = CERT_DISC
    THEN _c_score_standard_certification_value(75, "A", tracks)
    ELSE IF classification = CERT_BRUSH THEN Len(tracks) * 10 * ScoreUnit
    ELSE Len(tracks) * 42 * 420

\* table JOIN helper_artist_group on the group, for one artist id, up to a day
ArtistRows(db, table, spotify_artist_id, simulated_date) ==
    {r \in table :
        /\ \E g \in db.helper_artist_group :
              /\ g.artist_group = r.artist_group
              /\ g.artist_spotify_id = spotify_artist_id
        /\ r.release_day <= simulated_date}

\* a score, or the exception that ended its computation
Score(value) == [error |-> "", value |-> value]
NoScoreFor(error) == [error |-> error, value |-> 0]

cumulative_artist_score(db, spotify_artist_id, simulated_date) ==
    LET rankings == ArtistRows(db, db.ranking, spotify_artist_id, simulated_date)
        certifications ==
            {r \in ArtistRows(db, db.certification, spotify_artist_id, simulated_date) :
                r.classification \in {CERT_DISC, CERT_BRUSH, CERT_REPEAT}}
    IN IF \E r \in rankings : r.classification \notin DOMAIN RANK_VALUE
       THEN NoScoreFor("KeyError")
       ELSE Score(SumValues([r \in rankings |->
                        RANK_VALUE[r.classification]
                            * _c_score_project_value(r.track_durations_sec)])
                  + SumValues([r \in certifications |->
                        CERT_VALUE(r.classification, r.track_durations_sec)]))

\* ORDER BY release_day DESC: the latest row, of several of one day the one
\* stored last
LatestRow(rows) ==
    CHOOSE r \in rows : \A s \in rows :
        \/ r.release_day > s.release_day
        \/ r.release_day = s.release_day /\ r.retrieved_time >= s.retrieved_time

\* A walk that ends at the first release that takes the share of A to 0.7 or less
RECURSIVE SnapshotLoopStopsEarly(_, _, _)
SnapshotLoopStopsEarly(table, durations, project_duration_seconds) ==
    IF table = {} THEN Score(durations.A + durations.B)
    ELSE LET row == LatestRow(table)
             seconds_a == durations.A + (IF row.classification = "A"
                                         THEN SumSeq(row.track_durations_sec) ELSE 0)
             seconds_b == durations.B + (IF row.classification = "B"
                                         THEN SumSeq(row.track_durations_sec) ELSE 0)
         IN IF row.classification \notin DOMAIN durations
               \/ 10 * seconds_a <= 7 * (seconds_a + seconds_b)
            THEN Score(durations.A + durations.B)
            ELSE SnapshotLoopStopsEarly(table \ {row}, [A |-> seconds_a, B |-> seconds_b],
                                        project_duration_seconds)

\* The loop of snapshot_artist_score over the rows still to come; durations
\* and project_duration_seconds are records of the seconds under A and B
RECURSIVE SnapshotLoop(_, _, _)
SnapshotLoop(table, durations, project_duration_seconds) ==
    IF table = {} THEN Score(durations.A + durations.B)
    ELSE LET row == LatestRow(table)
         IN IF row.classification \notin DOMAIN durations
            THEN Score(durations.A + durations.B)
            ELSE LET added == [project_duration_seconds EXCEPT
                                  ![row.classification] =
                                      @ + SumSeq(row.track_durations_sec)]
                     seconds_a == durations.A + added.A
                     seconds_b == durations.B + added.B
                 IN IF seconds_a + seconds_b = 0 THEN NoScoreFor("ZeroDivisionError")
                    ELSE IF 10 * seconds_a > 7 * (seconds_a + seconds_b)
                    THEN SnapshotLoop(table \ {row}, [A |-> seconds_a, B |-> seconds_b],
                                      [A |-> 0, B |-> 0])
                    ELSE SnapshotLoop(table \ {row}, durations, added)

\* seconds over one minute, times ScoreUnit
snapshot_artist_score(db, spotify_artist_id, simulated_date) ==
    LET walked == SnapshotLoop(ArtistRows(db, db.ranking, spotify_artist_id, simulated_date),
                               [A |-> 0, B |-> 0], [A |-> 0, B |-> 0])
    IN IF walked.error # "" THEN walked ELSE Score(70 * walked.value)

overall_artist_score(db, spotify_artist_id, simulated_date) ==
    LET cumulative == cumulative_artist_score(db, spotify_artist_id, simulated_date)
        snapshot == snapshot_artist_score(db, spotify_artist_id, simulated_date)
    IN IF cumulative.error # "" THEN cumulative
       ELSE IF snapshot.error # "" THEN snapshot
       ELSE Score(cumulative.value + snapshot.value)

\* INSERT INTO helper_artist_score: the key (artist_group, date_from) replaces
StoreScore(scores, artist_group, date_from, score) ==
    {x \in scores : ~(x.artist_group = artist_group /\ x.date_from = date_from)}
        \cup {[artist_group |-> artist_group, date_from |-> date_from, score |-> score]}

\* The loop of store_artist_group_score over the artists still to come
RECURSIVE StoreArtistScores(_, _, _, _, _)
StoreArtistScores(db, scores, artists, simulated_date, group_score) ==
    IF artists = <<>> THEN [error |-> "", scores |-> scores, group_score |-> group_score]
    ELSE CHOOSE left \in
            {IF score.error # ""
             THEN [error |-> score.error, scores |-> scores, group_score |-> group_score]
             ELSE StoreArtistScores(db,
                    StoreScore(scores, <<Head(artists)>>, simulated_date, score.value),
                    Tail(artists), simulated_date,
                    IF score.value > group_score THEN score.value ELSE group_score) :
                score \in {overall_artist_score(db, Head(artists), simulated_date)}} : TRUE

\* a row for each artist, then the row of the group with the highest of them
store_artist_group_score(db, scores, artist_group, simulated_date) ==
    CHOOSE left \in
        {IF stored.error # "" THEN [error |-> stored.error, scores |-> stored.scores]
         ELSE [error |-> "",
               scores |-> StoreScore(stored.scores, list2strray(artist_group),
                                     simulated_date, stored.group_score)] :
            stored \in {StoreArtistScores(db, scores, artist_group, simulated_date, 0)}} : TRUE

-----------------------------------------------------------------------------
(* ss_season: the content of a season *)

\* None, for a date and for a year
NoDate == 0
NoYear == -1
\* date.min and date.max
DateMin == MakeDate(1, 1, 1)
DateMax == MakeDate(9999, 12, 31)

\* the score column of a row that no helper_artist_score row joins (NULL)
NoScore == -1

\* A content query that leaves out the album of a Single link where
\* _season_retrieve_rows leaves out the single
SeasonRecordsDropAlbum(db, classifications, start_date, stop_date, exclusion_certifications) ==
    LET target_table == IF \A c \in classifications : InRankings(c)
                        THEN db.ranking ELSE db.certification
        start == IF start_date = NoDate THEN DateMin ELSE start_date
        stop == IF stop_date = NoDate THEN DateMax ELSE stop_date
    IN {r \in target_table :
          /\ ~\E single \in db.helper_single :
                /\ single.album_release_day = r.release_day
                /\ single.album_name = r.name
                /\ single.album_track_names = r.track_names
          /\ r.classification \in classifications
          /\ r.release_day >= start
          /\ r.release_day < stop
          /\ ~\E exclusion \in db.certification :
                /\ exclusion.release_day = r.release_day
                /\ exclusion.artist_names = r.artist_names
                /\ exclusion.name = r.name
                /\ exclusion.classification \in exclusion_certifications}

\* A content query that takes the releases of the stop date as well
SeasonRecordsThroughStop(db, classifications, start_date, stop_date, exclusion_certifications) ==
    LET start == IF start_date = NoDate THEN DateMin ELSE start_date
        stop == IF stop_date = NoDate THEN DateMax ELSE stop_date
    IN {r \in db.ranking :
          /\ r.classification \in classifications
          /\ r.release_day >= start
          /\ r.release_day <= stop
          /\ ~\E exclusion \in db.certification :
                /\ exclusion.release_day = r.release_day
                /\ exclusion.artist_names = r.artist_names
                /\ exclusion.name = r.name
                /\ exclusion.classification \in exclusion_certifications}

\* The records _season_retrieve_rows selects, before ORDER BY and DISTINCT:
\* classifications is the list of words for a classification text and
\* AUTOSEASON_RANKINGS for a slot number
SeasonRecords(db, classifications, start_date, stop_date, exclusion_certifications) ==
    LET target_table == IF \A c \in classifications : InRankings(c)
                        THEN db.ranking ELSE db.certification
        start == IF start_date = NoDate THEN DateMin ELSE start_date
        stop == IF stop_date = NoDate THEN DateMax ELSE stop_date
        album_track_names == {t.track_names : t \in {x \in target_table :
                                                        x.classification \in classifications}}
    IN {r \in target_table :
          /\ ~\E single \in db.helper_single :
                /\ single.single_release_day = r.release_day
                /\ single.artist_names = r.artist_names
                /\ single.single_name = r.name
                /\ single.album_track_names \in album_track_names
          /\ r.classification \in classifications
          /\ r.release_day >= start
          /\ r.release_day < stop
          /\ ~\E exclusion \in db.certification :
                /\ exclusion.release_day = r.release_day
                /\ exclusion.artist_names = r.artist_names
                /\ exclusion.name = r.name
                /\ exclusion.classification \in exclusion_certifications}

\* the score helper_artist_score joins to a record, NoScore when none
JoinedScore(scores, r) ==
    IF \E x \in scores : x.artist_group = r.artist_group /\ x.date_from = r.release_day
    THEN (CHOOSE x \in scores :
            x.artist_group = r.artist_group /\ x.date_from = r.release_day).score
    ELSE NoScore

\* ORDER BY release_day ASC, score DESC: r may come before s
ComesFirst(scores, r, s) ==
    \/ r.release_day < s.release_day
    \/ r.release_day = s.release_day /\ JoinedScore(scores, r) >= JoinedScore(scores, s)

\* The orders the ORDER BY allows: rows equal in both columns come in any order
RECURSIVE Ordered(_, _)
Ordered(scores, records) ==
    IF records = {} THEN {<<>>}
    ELSE UNION {{<<r>> \o rest : rest \in Ordered(scores, records \ {r})} :
                r \in {x \in records : \A y \in records : ComesFirst(scores, x, y)}}

\* SELECT DISTINCT: a value the rows before have given is not given again
RECURSIVE Distinct(_)
Distinct(values) ==
    IF values = <<>> THEN <<>>
    ELSE LET front == Distinct(SubSeq(values, 1, Len(values) - 1))
             value == values[Len(values)]
         IN IF Member(front, value) THEN front ELSE Append(front, value)

GroupAndDay(r) == <<strray2list(r.artist_group), r.release_day>>
TrackIds(r) == strray2list(r.track_spotify_ids)

\* The classifications a season's classification stands for: the words of a
\* strray, AUTOSEASON_RANKINGS for a slot number
Classifications(classification) ==
    IF classification.slot THEN AUTOSEASON_RANKINGS
    ELSE {strray2list(classification.words)[i] :
            i \in 1..Len(strray2list(classification.words))}

\* the classification of a season: a strray of words, or a slot number
WordsOf(words) == [slot |-> FALSE, words |-> words, num |-> 0]
SlotOf(num) == [slot |-> TRUE, words |-> <<>>, num |-> num]

_season_verify_exclusions(classification) ==
    EXCLUSION_CERTIFICATIONS \
        (IF classification.slot THEN {DigitsOf(classification.num)}
         ELSE {strray2list(classification.words)[i] :
                 i \in 1..Len(strray2list(classification.words))})

\* the records of a season, with the exclusions its classification leaves
_season_retrieve_records(db, classification, start_date, stop_date) ==
    CHOOSE records \in {SeasonRecords(db, cs, start_date, stop_date, exclusions) :
                          cs \in {Classifications(classification)},
                          exclusions \in {_season_verify_exclusions(classification)}} : TRUE

\* The rows _season_retrieve_rows can yield, in each order they can come in
_season_retrieve_rows(db, scores, classification, start_date, stop_date) ==
    UNION {Ordered(scores, records) :
            records \in {_season_retrieve_records(db, classification, start_date, stop_date)}}

RECURSIVE flatten(_)
flatten(lists) == IF lists = <<>> THEN <<>> ELSE Head(lists) \o flatten(Tail(lists))

\* the track ids of a season, in each order the rows can come in
_season_retrieve_tracks(db, scores, classification, start_date, stop_date) ==
    {flatten(Distinct([i \in 1..Len(rows) |-> TrackIds(rows[i])])) :
        rows \in _season_retrieve_rows(db, scores, classification, start_date, stop_date)}

-----------------------------------------------------------------------------
(* ss_season: metadata, upload and dispatch *)

\* the playlists of the user
Playlists == {"pl_1", "pl_2"}

\* the truth value of a year: None and 0 are false
Falsy(year) == year = NoYear \/ year = 0

\* The season rows the SELECT of _season_retrieve_metadata can give first.
\* classification is the parsed group: the text of a str is compared with the
\* stored strray, an int with a stored slot number
_season_retrieve_metadata(rows, year_range, classification) ==
    {s \in rows :
        /\ IF classification.kind = "int"
           THEN s.classification = SlotOf(classification.num)
           ELSE s.classification = WordsOf(<<Str(classification.text)>>)
        /\ \/ year_range[1] # NoYear /\ s.min_year = year_range[1]
           \/ Falsy(year_range[1]) /\ s.min_year = NoYear
        /\ \/ year_range[2] # NoYear /\ s.max_year = year_range[2]
           \/ Falsy(year_range[2]) /\ s.max_year = NoYear}

NextRowid(rows) ==
    IF rows = {} THEN 1 ELSE 1 + (CHOOSE n \in {s.rowid : s \in rows} :
                                    \A s \in rows : s.rowid <= n)

\* INSERT INTO season: a key with no NULL in it replaces the row that has it
_season_store_metadata(rows, classification, start_date, stop_date, playlist_id) ==
    LET min_year == IF start_date # NoDate THEN YearOf(start_date) ELSE NoYear
        max_year == IF stop_date = NoDate THEN NoYear
                    ELSE IF MonthOf(stop_date) = 1 /\ DayOf(stop_date) = 1
                    THEN YearOf(stop_date) - 1
                    ELSE YearOf(stop_date)
        conflicting == {s \in rows : /\ min_year # NoYear /\ max_year # NoYear
                                     /\ s.min_year = min_year /\ s.max_year = max_year
                                     /\ s.classification = classification}
    IN (rows \ conflicting) \cup
        {[min_year |-> min_year, max_year |-> max_year,
          classification |-> classification,
          start_date |-> start_date, stop_date |-> stop_date,
          playlist_spotify_id |-> playlist_id, rowid |-> NextRowid(rows)]}

\* What a season operation leaves: the exception that ended it ("" when
\* none), and the working state of the tables it writes and of Spotify
Uploaded(error, scores, rows, playlists) ==
    [error |-> error, scores |-> scores, season |-> rows, playlist |-> playlists]

\* The loop of _season_upload over the (artist_group, release_day) still to come
FirstGroup(groups) == CHOOSE g \in groups : TRUE

RECURSIVE StoreGroupScores(_, _, _)
StoreGroupScores(db, scores, groups) ==
    IF groups = {} THEN [error |-> "", scores |-> scores]
    ELSE CHOOSE left \in
            {IF stored.error # "" THEN stored
             ELSE StoreGroupScores(db, stored.scores, groups \ {FirstGroup(groups)}) :
                stored \in {store_artist_group_score(db, scores, FirstGroup(groups)[1],
                                                     FirstGroup(groups)[2])}} : TRUE

\* remove every item of the playlist, then add the season's: None raised for
\* an empty season
_season_transmit_projects(playlists, playlist_id, tracks) ==
    IF tracks = <<>> THEN [error |-> "NoResultsError", playlist |-> playlists]
    ELSE [error |-> "", playlist |-> [playlists EXCEPT ![playlist_id] = tracks]]

\* _season_upload once the scores of the season's groups are stored
UploadScored(db, stored, rows, playlists, classification, start_date, stop_date, playlist_id) ==
    IF stored.error # "" THEN {Uploaded(stored.error, stored.scores, rows, playlists)}
    ELSE {Uploaded(sent.error, stored.scores, rows, sent.playlist) :
            sent \in {_season_transmit_projects(playlists, playlist_id, tracks) :
                        tracks \in _season_retrieve_tracks(db, stored.scores, classification,
                                                           start_date, stop_date)}}

_season_upload(db, scores, rows, playlists, classification, start_date, stop_date, playlist_id) ==
    UNION {UploadScored(db, stored, rows, playlists, classification, start_date, stop_date,
                        playlist_id) :
            stored \in {StoreGroupScores(db, scores, groups) :
                          groups \in {{GroupAndDay(r) : r \in
                                         _season_retrieve_records(db, classification,
                                                                  start_date, stop_date)}}}}

_season_create(db, scores, rows, playlists, classification, start_date, end_date, playlist_id) ==
    UNION {_season_upload(db, scores, stored, playlists, classification, start_date,
                          end_date, playlist_id) :
            stored \in {_season_store_metadata(rows, classification, start_date, end_date,
                                               playlist_id)}}

\* date(year, 1, 1) raises ValueError outside MINYEAR..MAXYEAR
YearOk(year) == 1 <= year /\ year <= 9999

\* list2strray(classification.split()) of a parsed text
SplitWords(text) ==
    CHOOSE split \in {WordsOf(list2strray([i \in 1..Len(words) |-> Str(words[i])])) :
                        words \in {Words(text)}} : TRUE

\* The cases of ss_season that ask for one season, for the parsed groups
SeasonDispatchCase(db, scores, rows, playlists, playlist_id, groups, case) ==
    LET failed(error) == {Uploaded(error, scores, rows, playlists)}
    IN IF case = "upload range"
       THEN UNION {IF targets = {} THEN failed("NoResultsError")
                   ELSE IF groups[3].kind = "int" THEN failed("AttributeError")
                   ELSE UNION {_season_upload(db, scores, rows, playlists, classification,
                                              target.start_date, target.stop_date,
                                              target.playlist_spotify_id) :
                                target \in targets,
                                classification \in {SplitWords(groups[3].text)}} :
                    targets \in {_season_retrieve_metadata(
                                    rows, <<groups[2].min, groups[2].max>>, groups[3])}}
       ELSE IF case = "upload unbounded"
       THEN UNION {IF targets = {} THEN failed("NoResultsError")
                   ELSE UNION {_season_upload(db, scores, rows, playlists, classification,
                                              NoDate, NoDate, target.playlist_spotify_id) :
                                target \in targets,
                                classification \in {SplitWords(groups[2].text)}} :
                    targets \in {_season_retrieve_metadata(rows, <<NoYear, NoYear>>,
                                                           groups[2])}}
       ELSE IF case = "create range"
       THEN IF ~YearOk(groups[1].min) \/ ~YearOk(groups[1].max + 1)
            THEN failed("ValueError")
            ELSE UNION {_season_create(db, scores, rows, playlists, classification,
                                       beginning_year(groups[1].min),
                                       beginning_year(groups[1].max + 1), playlist_id) :
                         classification \in {SplitWords(groups[2].text)}}
       ELSE IF case = "create unbounded"
       THEN UNION {_season_create(db, scores, rows, playlists, classification,
                                  NoDate, NoDate, playlist_id) :
                    classification \in {SplitWords(groups[1].text)}}
       ELSE failed("UnsupportedQueryError")

-----------------------------------------------------------------------------
(* ss_season: the automatic seasons *)

\* date + timedelta(1)
NextDay(day) ==
    IF DayOf(day) < DaysInMonth(YearOf(day), MonthOf(day)) THEN day + 1
    ELSE IF MonthOf(day) < 12 THEN MakeDate(YearOf(day), MonthOf(day) + 1, 1)
    ELSE MakeDate(YearOf(day) + 1, 1, 1)

RECURSIVE CalculateEndLoop(_, _, _, _, _)

\* A stop date that keeps the boundary day in every case
CalculateEndKeepsDay(table, total_tracks, day, day_tracks, stop_date) ==
    IF table = <<>> THEN stop_date
    ELSE IF total_tracks + Len(Head(table)[1]) >= 80 THEN NextDay(Head(table)[2])
    ELSE CalculateEndLoop(Tail(table), total_tracks + Len(Head(table)[1]), Head(table)[2],
                          Len(Head(table)[1]), stop_date)

\* The loop of _season_calculate_end over the rows still to come: a row is
\* the list of track names and the release day of a release
CalculateEndLoop(table, total_tracks, day, day_tracks, stop_date) ==
    IF table = <<>> THEN stop_date
    ELSE LET project_tracks == Len(Head(table)[1])
             release_day == Head(table)[2]
             total == total_tracks + project_tracks
             of_day == IF release_day # day THEN project_tracks
                       ELSE day_tracks + project_tracks
         IN IF total >= 80
            THEN IF IDEAL_AUTOSEASON_LENGTH - (total - of_day) < total - IDEAL_AUTOSEASON_LENGTH
                 THEN release_day
                 ELSE NextDay(release_day)
            ELSE CalculateEndLoop(Tail(table), total, release_day, of_day, stop_date)

\* SELECT DISTINCT ranking.track_names, ranking.release_day of the rows
EndTable(rows) ==
    Distinct([i \in 1..Len(rows) |-> <<strray2list(rows[i].track_names), rows[i].release_day>>])

\* the stop dates _season_calculate_end can return, one for each order the
\* rows can come in
_season_calculate_end(db, scores, start_date, max_year) ==
    UNION {{CalculateEndLoop(table, 0, NoDate, 0, stop_date) :
              table \in {EndTable(rows) :
                           rows \in Ordered(scores, SeasonRecords(db, AUTOSEASON_RANKINGS,
                                                                  start_date, stop_date,
                                                                  EXCLUSION_CERTIFICATIONS))}} :
            stop_date \in {beginning_year(max_year + 1)}}

\* the digits of str(num), and the order of two texts of digits
RECURSIVE DigitList(_)
DigitList(num) == IF num < 10 THEN <<num>> ELSE Append(DigitList(num \div 10), num % 10)

RECURSIVE TextLess(_, _)
TextLess(a, b) ==
    IF b = <<>> THEN FALSE
    ELSE IF a = <<>> THEN TRUE
    ELSE IF Head(a) # Head(b) THEN Head(a) < Head(b)
    ELSE TextLess(Tail(a), Tail(b))

\* classification < ? for the stored text of a season and a slot number: the
\* number is compared as text, and a word in capitals comes after every digit
ClassificationBefore(classification, season_number) ==
    classification.slot /\ TextLess(DigitList(classification.num), DigitList(season_number))

_season_calculate_start(rows, year, season_number) ==
    LET earlier == {s \in rows : /\ s.min_year = year /\ s.max_year = year
                                 /\ ClassificationBefore(s.classification, season_number)}
    IN IF earlier = {} THEN beginning_year(year)
       ELSE CHOOSE d \in {s.stop_date : s \in earlier} : \A s \in earlier : s.stop_date <= d

\* len(set(tracks)) of the year's releases that automatic seasons take
_season_retrieve_year_len(db, year) ==
    Cardinality(UNION {{TrackIds(r)[i] : i \in 1..Len(TrackIds(r))} :
                         r \in SeasonRecords(db, AUTOSEASON_RANKINGS, beginning_year(year),
                                             beginning_year(year + 1),
                                             _season_verify_exclusions(SlotOf(0)))})

\* the year of the first release_day of ranking; the table is not empty
_season_retrieve_min_year(db) ==
    YearOf(CHOOSE d \in {r.release_day : r \in db.ranking} :
             \A r \in db.ranking : d <= r.release_day)

\* ss_new: one more playlist of the user, empty
NewPlaylist(playlists) == "pl_" \o DigitsOf(Cardinality(DOMAIN playlists) + 1)
ss_new(playlists) ==
    [p \in DOMAIN playlists \cup {NewPlaylist(playlists)} |->
        IF p \in DOMAIN playlists THEN playlists[p] ELSE <<>>]

\* A season an update has published: its key, its window and its playlist
Window(year_range, season_number, start_date, stop_date, playlist_id) ==
    [min_year |-> year_range[1], max_year |-> year_range[2], number |-> season_number,
     start_date |-> start_date, stop_date |-> stop_date, playlist_id |-> playlist_id]

\* The state of an ss_season call: the exception that ended it ("" when
\* none), the working state of the connection and of Spotify, the tables as
\* last committed, the seasons published and the ranges of years closed
Working(error, scores, rows, playlists, saved_scores, saved_season, log, ranges) ==
    [error |-> error, scores |-> scores, season |-> rows, playlist |-> playlists,
     saved_scores |-> saved_scores, saved_season |-> saved_season,
     log |-> log, ranges |-> ranges]

\* after _season_upload: db.commit() when it returns
Settle(st, o) ==
    IF o.error = ""
    THEN [st EXCEPT !.scores = o.scores, !.season = o.season, !.playlist = o.playlist,
                    !.saved_scores = o.scores, !.saved_season = o.season]
    ELSE [st EXCEPT !.error = o.error, !.scores = o.scores, !.season = o.season,
                    !.playlist = o.playlist]

Publish(st, o, window) ==
    IF o.error = "" THEN [Settle(st, o) EXCEPT !.log = Append(@, window)] ELSE Settle(st, o)

\* the except branch of _season_ensure_autoseason: scores is the working
\* table the try branch left
EnsureCreate(db, st, scores, year_range, season_number, start_date, stop_date) ==
    UNION {{Publish(st, o, Window(year_range, season_number, start_date, stop_date, id)) :
              o \in _season_create(db, scores, st.season, made, SlotOf(season_number),
                                   start_date, stop_date, id)} :
            id \in {NewPlaylist(st.playlist)}, made \in {ss_new(st.playlist)}}

_season_ensure_autoseason(db, st, year_range, season_number, start_date, stop_date) ==
    UNION {IF targets = {}
           THEN EnsureCreate(db, st, st.scores, year_range, season_number, start_date,
                             stop_date)
           ELSE UNION {UNION {IF o.error = "NoResultsError"
                              THEN EnsureCreate(db, st, o.scores, year_range, season_number,
                                                start_date, stop_date)
                              ELSE {Publish(st, o, Window(year_range, season_number,
                                                          start_date, stop_date,
                                                          target.playlist_spotify_id))} :
                                o \in _season_upload(db, st.scores, st.season, st.playlist,
                                                     SlotOf(season_number), start_date,
                                                     stop_date, target.playlist_spotify_id)} :
                        target \in targets} :
            targets \in {_season_retrieve_metadata(st.season, year_range,
                                                   IntToken(season_number))}}

\* pairwise(_season_calculate_year(db, year)): the next divider is calculated
\* when the season before it has been published.  One pass of the loop, from
\* the divider and the number it has come to; a loop that has ended stays
YearPass(db, year, w) ==
    IF w.st.error # "" \/ w.season_divider = beginning_year(year + 1) THEN {w}
    ELSE UNION {{[st |-> next, season_divider |-> stop_date,
                  season_number |-> w.season_number + 1] :
                   next \in _season_ensure_autoseason(db, w.st, <<year, year>>,
                                                      w.season_number, w.season_divider,
                                                      stop_date)} :
                 stop_date \in _season_calculate_end(db, w.st.scores, w.season_divider, year)}

\* the loop, over every course it can take, until each has ended
RECURSIVE UpdateYearLoop(_, _, _)
UpdateYearLoop(db, year, ws) ==
    CHOOSE out \in {IF next = ws THEN {w.st : w \in ws} ELSE UpdateYearLoop(db, year, next) :
                      next \in {UNION {YearPass(db, year, w) : w \in ws}}} : TRUE

_season_update_year(db, st, year) ==
    IF ~YearOk(year) \/ ~YearOk(year + 1) THEN {[st EXCEPT !.error = "ValueError"]}
    ELSE UNION {IF year_len = 0 THEN {st}
                ELSE UpdateYearLoop(db, year, first) :
                 year_len \in {_season_retrieve_year_len(db, year)},
                 first \in {{[st |-> st, season_divider |-> beginning_year(year),
                              season_number |-> 1]}}}

\* A loop that keeps a year of 80 tracks or more in the range it closes
ClosedMaxKeepsYear(target_min, target_max, selected_len) == target_max

\* the range of years the loop of _season_update_years closes
ClosedMax(target_min, target_max, selected_len) ==
    IF target_min # target_max /\ selected_len >= IDEAL_AUTOSEASON_LENGTH
    THEN target_max - 1 ELSE target_max

\* One pass of the loop of _season_update_years, from the total and the
\* targets it has come to; a loop that has ended stays
YearsPass(db, max_year, w) ==
    IF w.st.error # "" \/ w.target_max > max_year THEN {w}
    ELSE IF ~YearOk(w.target_max) \/ ~YearOk(w.target_max + 1)
    THEN {[w EXCEPT !.st.error = "ValueError"]}
    ELSE UNION {
        IF w.total + selected_len >= IDEAL_AUTOSEASON_LENGTH \/ w.target_max = max_year
        THEN UNION {UNION {{[st |-> next, total |-> 0, target_min |-> closed_max + 1,
                             target_max |-> closed_max + 1] :
                             next \in
                               IF w.target_min = closed_max
                               THEN _season_update_year(db, closed, w.target_min)
                               ELSE IF w.total + selected_len # 0
                               THEN _season_ensure_autoseason(
                                        db, closed, <<w.target_min, closed_max>>, 1,
                                        beginning_year(w.target_min),
                                        beginning_year(closed_max + 1))
                               ELSE {closed}} :
                      closed \in {[w.st EXCEPT !.ranges =
                                      Append(@, <<w.target_min, closed_max>>)]}} :
                      closed_max \in {ClosedMax(w.target_min, w.target_max, selected_len)}}
        ELSE {[w EXCEPT !.total = @ + selected_len, !.target_max = @ + 1]} :
        selected_len \in {_season_retrieve_year_len(db, w.target_max)}}

\* the loop, over every course it can take, until each has ended
RECURSIVE UpdateYearsLoop(_, _, _)
UpdateYearsLoop(db, max_year, ws) ==
    CHOOSE out \in {IF next = ws THEN {w.st : w \in ws}
                    ELSE UpdateYearsLoop(db, max_year, next) :
                      next \in {UNION {YearsPass(db, max_year, w) : w \in ws}}} : TRUE

\* today is date.today()
_season_update_years(db, st, min_year, max_year, today) ==
    IF Falsy(min_year) /\ db.ranking = {} THEN {[st EXCEPT !.error = "TypeError"]}
    ELSE UNION {UpdateYearsLoop(db, last_year, first) :
                 last_year \in {IF Falsy(max_year) THEN YearOf(today) ELSE max_year},
                 first \in {{[st |-> st, total |-> 0, target_min |-> target_min,
                              target_max |-> target_min] :
                               target_min \in {IF Falsy(min_year)
                                               THEN _season_retrieve_min_year(db)
                                               ELSE min_year}}}}

\* The cases of ss_season that calculate the windows of automatic seasons
SeasonAutoCase(db, st, playlist_id, groups, case, today) ==
    IF case = "update year" THEN _season_update_year(db, st, groups[2].min)
    ELSE IF case = "update years"
    THEN _season_update_years(db, st, groups[2].min, groups[2].max, today)
    ELSE IF case = "update all" THEN _season_update_years(db, st, NoYear, NoYear, today)
    ELSE IF ~YearOk(groups[1].min) \/ ~YearOk(groups[1].max + 1)
    THEN {[st EXCEPT !.error = "ValueError"]}
    ELSE UNION {UNION {{Publish(st, o, Window(<<groups[1].min, groups[1].max>>,
                                               groups[2].num, start_date, end_date,
                                               playlist_id)) :
                          o \in _season_create(db, st.scores, st.season, st.playlist,
                                               SlotOf(groups[2].num), start_date, end_date,
                                               playlist_id)} :
                        end_date \in _season_calculate_end(db, st.scores, start_date,
                                                           groups[1].max)} :
                 start_date \in {_season_calculate_start(st.season, groups[1].min,
                                                         groups[2].num)}}

\* the cases that partition a year or a range of years into automatic seasons
AutoCases == {"update year", "update years", "update all", "create slot"}

\* the match statement of ss_season, from the state st of the call
SeasonDispatch(db, st, playlist_id, groups, today) ==
    UNION {IF case \in AutoCases
           THEN SeasonAutoCase(db, st, playlist_id, groups, case, today)
           ELSE {Settle(st, o) :
                   o \in SeasonDispatchCase(db, st.scores, st.season, st.playlist,
                                            playlist_id, groups, case)} :
            case \in {SeasonCase(groups)}}

SeasonLast(q, subject, o) ==
    [Last("season", NoProject, "", o.error, <<>>, {}) EXCEPT
        !.query = q, !.subject = subject, !.log = o.log, !.ranges = o.ranges]

\* the days date.today() is drawn from
Todays == {MakeDate(2021, 11, 4)}

\* ss_season(subject, query) for a playlist as subject. _season_upload
\* commits when it returns and ss_season when the match statement has ended;
\* an exception leaves the connection to be closed with what it has not
\* committed, and Spotify as the calls before it left it.
SeasonCall(SeasonQueries, subjects, bound, playlists_bound) ==
    /\ projects = <<>>
    /\ NextRowid(season) <= bound
    /\ Cardinality(DOMAIN playlist) <= playlists_bound
    /\ \E subject \in subjects, q \in SeasonQueries, today \in Todays :
       \E parsed \in {_season_parse_query(q)}, db \in {Db},
          st \in {Working("", helper_artist_score, season, playlist,
                          helper_artist_score, season, <<>>, <<>>)} :
          \E o \in (IF parsed.ok
                    THEN SeasonDispatch(db, st, subject, parsed.groups, today)
                    ELSE {[st EXCEPT !.error = "UnsupportedQueryError"]}) :
                /\ helper_artist_score' =
                      IF o.error = "" THEN o.scores ELSE o.saved_scores
                /\ season' = IF o.error = "" THEN o.season ELSE o.saved_season
                /\ playlist' = o.playlist
                /\ last' = SeasonLast(q, subject, o)
    /\ UNCHANGED <<ranking, certification, helper_artist_group, helper_single,
                   artist_name, now, projects, query>>

-----------------------------------------------------------------------------
(* Specifications *)

\* initialize_database: empty tables
Init ==
    /\ ranking = {}
    /\ certification = {}
    /\ helper_artist_group = {}
    /\ helper_single = {}
    /\ helper_artist_score = {}
    /\ season = {}
    /\ playlist = [p \in Playlists |-> <<>>]
    /\ artist_name = [a \in Artists |-> FirstName(a)]
    /\ now = 0
    /\ projects = <<>>
    /\ query = <<>>
    /\ last = Last("init", NoProject, "", "", <<>>, {})

Subjects ==
    {<<P_S>>, <<P_S2>>, <<P_L1>>, <<P_L2>>, <<P_K>>,
     <<P_S, P_X, P_L1>>, <<P_Local, P_K, P_L2>>}
Queries == {Q_A, Q_b, Q_gold, Q_CHRISTMAS}

ss_classify == ClassifyCall(Subjects, Queries, MaxClock)

Next == ss_classify \/ ss_classify_loop \/ SpotifyRename

Spec == Init /\ [][Next]_vars

\* The ranking table alone, one call deeper
RankSubjects == {<<P_S>>, <<P_L>>, <<P_L1>>, <<P_K>>}
RankQueries == {Q_A, Q_b, Q_C}

ss_classify_rank == ClassifyCall(RankSubjects, RankQueries, MaxRankClock)

NextRank == ss_classify_rank \/ SpotifyRename

SpecRank == Init /\ [][NextRank]_vars

\* The releases of two artists: one of each alone and one of both
GroupProjects == {P_S, P_R, P_K}
GroupQueries == {Q_A, Q_b}

ss_classify_group ==
    ClassifyCall({<<p>> : p \in GroupProjects}, GroupQueries, MaxGroupClock)

NextGroup == ss_classify_group \/ SpotifyRename

SpecGroup == Init /\ [][NextGroup]_vars

\* The seasons: a few classified releases, and playlists made and refreshed
\* from them
W_update == <<"u", "p", "d", "a", "t", "e">>
W_2020 == <<"2", "0", "2", "0">>
W_2021 == <<"2", "0", "2", "1">>
W_a == <<"a">>

\* " ".join(words)
RECURSIVE Sentence(_)
Sentence(words) ==
    IF words = <<>> THEN <<>>
    ELSE IF Len(words) = 1 THEN words[1]
    ELSE words[1] \o <<" ">> \o Sentence(Tail(words))

SeasonQueries ==
    {Sentence(words) : words \in
        {<<>>, <<Q_3>>, <<W_2020, W_2021>>, <<W_update, Q_3>>, <<W_update, W_update>>,
         <<Q_gold, W_2020>>, <<W_2020, W_update>>,
         <<W_a, Q_b>>, <<Q_gold>>, <<W_2020, W_a>>,
         <<W_update, Q_gold>>, <<W_update, W_2020, W_a>>,
         <<W_update, W_a, Q_b>>, <<W_update, W_2020, Q_3>>}}

SeasonSubjects == {<<P_S>>, <<P_L>>, <<P_K>>}
SeasonClassifications == {Q_A, Q_b, Q_gold}

ss_classify_season == ClassifyCall(SeasonSubjects, SeasonClassifications, MaxSeasonClock)

ss_season == SeasonCall(SeasonQueries, Playlists, MaxSeasons, MaxPlaylists)

NextSeason == ss_classify_season \/ ss_season

SpecSeason == Init /\ [][NextSeason]_vars

\* Seasons of a range of years made and refreshed: by one word, by two words
\* and by a slot number
ReplayQueries ==
    {Sentence(words) : words \in
        {<<W_2020, W_a>>, <<W_2020, W_a, Q_b>>, <<W_2020, Q_3>>,
         <<W_update, W_2020, W_a>>, <<W_update, W_2020, W_a, Q_b>>,
         <<W_update, W_2020, Q_3>>}}

ss_classify_replay == ClassifyCall({<<P_S>>, <<P_L>>, <<P_K>>}, {Q_A, Q_b}, MaxReplayClock)

ss_season_replay == SeasonCall(ReplayQueries, Playlists, MaxReplaySeasons, MaxPlaylists)

NextReplay == ss_classify_replay \/ ss_season_replay

SpecReplay == Init /\ [][NextReplay]_vars

\* The automatic seasons: a box set of 79 tracks in January 2020, two
\* releases on 1 June 2020, a release of 2019 and one of 2021
W_2019_21 == <<"2", "0", "1", "9", "-", "2", "1">>
W_2018_20 == <<"2", "0", "1", "8", "-", "2", "0">>
Q_2 == <<"2">>
Q_1 == <<"1">>

AutoQueries ==
    {Sentence(words) : words \in
        {<<W_update, W_2020>>, <<W_update, W_2019_21>>, <<W_update, W_2018_20>>,
         <<W_update>>, <<W_2020, Q_2>>}}

AutoSubjects ==
    {<<P_D1>>, <<P_B, P_D1>>, <<P_B, P_D2>>, <<P_B, P_D1, P_D2>>,
     <<P_E, P_N>>, <<P_E, P_B>>, <<P_E, P_B, P_D2, P_N>>}

ss_classify_auto == ClassifyCall(AutoSubjects, {Q_A}, MaxAutoClock)

ss_season_auto == SeasonCall(AutoQueries, {"pl_1"}, MaxAutoSeasons, MaxAutoPlaylists)

NextAuto == ss_classify_auto \/ ss_classify_loop \/ ss_season_auto

SpecAuto == Init /\ [][NextAuto]_vars

\* The scores: the releases of one artist ranked A, B or C, and a season of
\* the releases ranked A or B that stores the scores of their days
ss_classify_score ==
    ClassifyCall({<<P_B>>, <<P_D2>>, <<P_N>>}, {Q_A, Q_b, Q_C}, MaxScoreClock)

ss_season_score ==
    SeasonCall({Sentence(<<W_a, Q_b>>)}, {"pl_1"}, MaxScoreSeasons, MaxPlaylists)

NextScore == ss_classify_score \/ ss_season_score

SpecScore == Init /\ [][NextScore]_vars

\* A season of a rank and a certification: two releases of 2020, ranked C or
\* A or certified GOLD
MixedQueries ==
    {Sentence(words) : words \in
        {<<W_2020, Q_C, Q_gold>>, <<W_2020, Q_C>>, <<W_2020, Q_gold>>,
         <<W_update, W_2020, Q_C>>}}

ss_classify_mixed ==
    ClassifyCall({<<P_S>>, <<P_D2>>}, {Q_A, Q_C, Q_gold}, MaxMixedClock)

ss_season_mixed == SeasonCall(MixedQueries, Playlists, MaxMixedSeasons, MaxPlaylists)

NextMixed == ss_classify_mixed \/ ss_season_mixed

SpecMixed == Init /\ [][NextMixed]_vars

\* A single of 2020 and the album of 2021 that holds its track
SingleQueries ==
    {Sentence(words) : words \in
        {<<W_2020, Q_A, Q_b>>, <<W_2021, Q_A, Q_b>>, <<W_2020, Q_A>>}}

ss_classify_single == ClassifyCall({<<P_S>>, <<P_A>>}, {Q_A, Q_b}, MaxSingleClock)

ss_season_single == SeasonCall(SingleQueries, Playlists, MaxSingleSeasons, MaxPlaylists)

NextSingle == ss_classify_single \/ ss_season_single

SpecSingle == Init /\ [][NextSingle]_vars

\* Two certifications of the tracks of one album
CertQueries ==
    {Sentence(words) : words \in
        {<<Q_gold, Q_CHRISTMAS>>, <<Q_gold>>, <<W_2020, Q_gold, Q_CHRISTMAS>>}}

ss_classify_cert ==
    ClassifyCall({<<P_L1>>, <<P_L2>>, <<P_L>>}, {Q_gold, Q_CHRISTMAS}, MaxCertClock)

ss_season_cert == SeasonCall(CertQueries, Playlists, MaxCertSeasons, MaxPlaylists)

NextCert == ss_classify_cert \/ ss_season_cert

SpecCert == Init /\ [][NextCert]_vars

\* A release of 161 tracks on January 1, and releases after it
HugeQueries ==
    {Sentence(words) : words \in
        {<<W_update, W_2020>>, <<W_update, W_2019_21>>, <<W_2020, Q_1>>}}

ss_classify_huge == ClassifyCall({<<P_H>>, <<P_D1>>, <<P_N>>}, {Q_A, Q_b}, MaxHugeClock)

ss_season_huge == SeasonCall(HugeQueries, {"pl_1"}, MaxHugeSeasons, MaxAutoPlaylists)

NextHuge == ss_classify_huge \/ ss_season_huge

SpecHuge == Init /\ [][NextHuge]_vars

\* Releases ranked E, the lowest rank, or A
LowQueries ==
    {Sentence(words) : words \in {<<W_2020, Q_E>>, <<W_2020, Q_A, Q_E>>, <<W_2020, Q_A>>}}

ss_classify_low == ClassifyCall({<<P_S>>, <<P_D2>>}, {Q_A, Q_E}, MaxLowClock)

ss_season_low == SeasonCall(LowQueries, Playlists, MaxLowSeasons, MaxPlaylists)

NextLow == ss_classify_low \/ ss_season_low

SpecLow == Init /\ [][NextLow]_vars

-----------------------------------------------------------------------------
(* Properties of the classification engine *)

AlbumProjects == {P_S, P_S2, P_L1, P_L2, P_K}
RankProjects == {P_S, P_L, P_L1, P_K}
RankLetters == {RANKINGS[i] : i \in 1..Len(RANKINGS)}
Tokens == {"GOLD", "CHRISTMAS"}

\* What _classify_build_row can hand on in the current state, over the answers
\* io_confirm can get
BuiltRows(p, c) ==
    UNION {{b \in _classify_build_row(artist_name, Db, c, p, now, confirm) : b.ok} :
            confirm \in Answers(Db, artist_name, p)}

\* What classifying p as c can leave in the current state
Outcomes(p, c) ==
    UNION {_classify_project(artist_name, Db, p, c, now, confirm) :
            confirm \in Answers(Db, artist_name, p)}

\* A table without the times of retrieval
Undated(table) == {[r EXCEPT !.retrieved_time = 0] : r \in table}

SameCatalog(a, b) ==
    /\ Undated(a.ranking) = Undated(b.ranking)
    /\ Undated(a.certification) = Undated(b.certification)
    /\ a.helper_artist_group = b.helper_artist_group
    /\ a.helper_single = b.helper_single

\* C1: classifying a release again with the classification it was just given,
\* the upstream data unchanged, raises nothing and leaves the same records in
\* every table (only the time of retrieval may differ), for rankings and for
\* certifications
C1_ReclassifyIdempotent ==
    (last.op = "classify" /\ last.error = "" /\ last.project.root_album # NoUri) =>
        \A o \in Outcomes(last.project, last.classification) :
            /\ o.error = ""
            /\ SameCatalog(o.db, Db)
            /\ RankingKeysUnique(o.db.ranking)
            /\ CertificationKeysUnique(o.db.certification)

\* a certification has just been stored: the next classify of it is a merge
C1_Witness ==
    /\ last.op = "classify"
    /\ last.error = ""
    /\ last.classification \in Tokens
    /\ last.inserted # <<>>
    /\ last.inserted[1] \in certification

\* C2: each table holds one record per primary key, several certifications of
\* one release can coexist, and no classify step ends in a refused insert
C2_KeysUnique ==
    /\ RankingKeysUnique(ranking)
    /\ CertificationKeysUnique(certification)
    /\ last.error # "IntegrityError"

\* one release under two certifications
C2_Witness ==
    \E r, s \in certification :
        RankingKey(r) = RankingKey(s) /\ r.classification # s.classification

\* every track name of `single` is on `album`, within five seconds
TracksWithin(single, album) ==
    _classify_is_single(read_column(single.track_names), single.track_durations_sec,
                        read_column(album.track_names), album.track_durations_sec)

\* the Single link of two ranking records
LinkOf(single, album) ==
    [single_release_day |-> single.release_day,
     artist_names |-> single.artist_names,
     single_name |-> single.name,
     album_release_day |-> album.release_day,
     album_name |-> album.name,
     single_track_names |-> single.track_names,
     album_track_names |-> album.track_names]

\* the records single-check compares with the new row, the row's own record
\* (deleted by a re-rank) left out
Compared(b) ==
    {ex \in SingleCheckJoin(b.db, b.row[1]) : RankingKey(ex) # RankingKey(StoredRow(b.row[1]))}

Containing(new, compared) ==
    {ex \in compared : TracksWithin(new, ex) /\ ~TracksWithin(ex, new)}

NotRanked(b) ==
    \A r \in b.db.ranking : RankingKey(r) # RankingKey(StoredRow(b.row[1]))

\* C4 as stated: whenever the new record's tracks are within a compared
\* record's, the new record is dropped and ranking untouched if that record
\* ranks at least as high, and is otherwise linked to it and inserted
C4_AsStated ==
    \A p \in RankProjects, c \in RankLetters : \A b \in BuiltRows(p, c) :
        NotRanked(b) =>
            \A new \in {StoredRow(b.row[1])}, o \in {_classify_rank(b.db, b.row[1])} :
                \A ex \in Compared(b) :
                    TracksWithin(new, ex) =>
                        IF RankIndex(ex.classification) >= RankIndex(c)
                        THEN o.row = <<>> /\ o.db.ranking = b.db.ranking
                        ELSE o.row # <<>> /\ LinkOf(new, ex) \in o.db.helper_single

\* C4, amended: when a compared record holds the new record's tracks and more,
\* the new record is dropped if that record ranks at least as high (records
\* compared before it may already be deleted); if none ranks as high, the new
\* record is inserted, linked as the single of one of them
C4_NewWithinExisting ==
    \A p \in RankProjects, c \in RankLetters : \A b \in BuiltRows(p, c) :
        NotRanked(b) =>
            \A new \in {StoredRow(b.row[1])} :
            \A holding \in {Containing(new, Compared(b))} :
                holding # {} =>
                    \A o \in {_classify_rank(b.db, b.row[1])} :
                        IF \E ex \in holding : RankIndex(ex.classification) >= RankIndex(c)
                        THEN o.row = <<>>
                        ELSE /\ o.row # <<>>
                             /\ \E ex \in holding : LinkOf(new, ex) \in o.db.helper_single

\* a single was just ranked above the album that holds it
C4_Witness ==
    /\ last.op = "classify"
    /\ last.inserted # <<>>
    /\ \E ex \in ranking :
          /\ TracksWithin(last.inserted[1], ex)
          /\ ~TracksWithin(ex, last.inserted[1])
          /\ LinkOf(last.inserted[1], ex) \in helper_single

\* the record a re-rank of the built row replaces: same key and album,
\* another classification, fewer than four tracks more
Reranked(b) ==
    {r \in b.db.ranking :
        /\ RankingKey(r) = RankingKey(StoredRow(b.row[1]))
        /\ r.album_spotify_id = b.row[1].album_spotify_id
        /\ r.classification # b.row[1].classification
        /\ Len(r.track_durations_sec) - Len(b.row[1].track_durations) < 4}

\* C6 as stated: a re-rank leaves exactly one ranking record for the key, with
\* the new classification
C6_AsStated ==
    \A p \in RankProjects, c \in RankLetters : \A b \in BuiltRows(p, c) :
        Reranked(b) # {} =>
            \A new \in {StoredRow(b.row[1])}, o \in {Ranked(b)} :
                /\ o.error = ""
                /\ {r \in o.db.ranking : RankingKey(r) = RankingKey(new)} = {new}

\* C6, amended: a re-rank deletes the old record and announces itself; it
\* leaves the new record, alone under its key, unless a compared record holds
\* the new record's tracks and more and ranks at least as high: then it
\* leaves no record for the key
C6_Rerank ==
    \A p \in RankProjects, c \in RankLetters : \A b \in BuiltRows(p, c) :
        Reranked(b) # {} =>
            \A new \in {StoredRow(b.row[1])}, o \in {Ranked(b)} :
                /\ o.error = ""
                /\ "re-ranked" \in o.notified
                /\ {r \in o.db.ranking : RankingKey(r) = RankingKey(new)} =
                      IF \E ex \in Containing(new, Compared(b)) :
                            RankIndex(ex.classification) >= RankIndex(c)
                      THEN {}
                      ELSE {new}

\* a re-rank has just replaced a record
C6_Witness ==
    /\ last.op = "classify"
    /\ "re-ranked" \in last.notified
    /\ last.inserted # <<>>
    /\ last.inserted[1] \in ranking

\* the certification a merge of the built row replaces: same key, same album
Merging(b) ==
    {r \in b.db.certification :
        /\ CertificationKey(r) = CertificationKey(StoredRow(b.row[1]))
        /\ r.album_spotify_id = b.row[1].album_spotify_id}

\* m lists tracks, each with its name, whole seconds, number and id
ListsTracks(m, tracks) ==
    /\ m.track_names = [i \in 1..Len(tracks) |-> tracks[i].name]
    /\ m.track_durations_sec = [i \in 1..Len(tracks) |-> Seconds(tracks[i].duration_ms)]
    /\ m.track_numbers = [i \in 1..Len(tracks) |-> tracks[i].track_number]
    /\ m.track_spotify_ids = [i \in 1..Len(tracks) |-> tracks[i].id]

Conflicting(b) ==
    IF InRankings(b.row[1].classification)
    THEN {r \in b.db.ranking :
            /\ RankingKey(r) = RankingKey(StoredRow(b.row[1]))
            /\ r.album_spotify_id # b.row[1].album_spotify_id}
    ELSE {r \in b.db.certification :
            /\ CertificationKey(r) = CertificationKey(StoredRow(b.row[1]))
            /\ r.album_spotify_id # b.row[1].album_spotify_id}

C9_FailureIsLocal ==
    [][(last'.op = "classify" /\ last'.error = "UnexpectedResponseException") =>
          /\ ranking' = ranking
          /\ certification' = certification
          /\ helper_artist_group' = helper_artist_group
          /\ helper_single' = helper_single
          /\ "Could not classify" \in last'.notified
          /\ projects # <<>> => (last'.project = Head(projects) /\ projects' = Tail(projects))
      ]_vars

\* a rename was refused in the middle of a batch: the stored name is still the
\* old one, the release classified before stays, another release is to come
C9_Witness ==
    /\ last.op = "classify"
    /\ last.error = "UnexpectedResponseException"
    /\ last.project = P_K
    /\ projects # <<>>
    /\ \E g \in helper_artist_group : g.artist_name # artist_name[g.artist_spotify_id]
    /\ ranking \cup certification # {}

\* the sets of ranking letters a season can ask for
LetterSets == SUBSET RankLetters \ {{}}

InSeason(db, cs) == SeasonRecords(db, cs, NoDate, NoDate, {})

\* r is the single of some Single link
LinkedAsSingle(db, r) ==
    \E s \in db.helper_single :
        /\ s.single_release_day = r.release_day
        /\ s.artist_names = r.artist_names
        /\ s.single_name = r.name

-----------------------------------------------------------------------------
(* Properties of the season engine *)

\* The tag of the i-th word of a query: the keyword update, a year or range
\* of years, a slot number, or free text (a word that is none of these, or
\* any word that is no year or number once free text has begun)
TagOf(words, i) ==
    LET token == _season_parse_token(words[i])
        free(j) == /\ _season_parse_token(words[j]).kind = "str"
                   /\ Str(words[j]) \notin SEASON_KEYWORDS
    IN IF token.kind = "tuple" THEN "range"
       ELSE IF token.kind = "int" THEN "slot"
       ELSE IF free(i) \/ \E j \in 1..(i - 1) : free(j) THEN "text"
       ELSE "update"

Tagged(q) == [i \in 1..Len(Words(q)) |-> TagOf(Words(q), i)]

\* tags from position k on are free text, one word or more
TextFrom(tags, k) == Len(tags) >= k /\ \A i \in k..Len(tags) : tags[i] = "text"

\* the eight shapes of tagged input that name an operation
EightShapes(tags) ==
    \/ tags = <<"update", "range">>
    \/ tags = <<"update">>
    \/ tags = <<"update", "range", "slot">>
    \/ Len(tags) >= 3 /\ tags[1] = "update" /\ tags[2] = "range" /\ TextFrom(tags, 3)
    \/ Len(tags) >= 2 /\ tags[1] = "update" /\ TextFrom(tags, 2)
    \/ tags = <<"range", "slot">>
    \/ Len(tags) >= 2 /\ tags[1] = "range" /\ TextFrom(tags, 2)
    \/ TextFrom(tags, 1)

\* C10 as stated: a season query whose tagged words are none of the eight
\* shapes ends in UnsupportedQueryError, with every table and every playlist
\* as before
C10_AsStated ==
    [][(last'.op = "season" /\ ~EightShapes(Tagged(last'.query))) =>
          /\ last'.error = "UnsupportedQueryError"
          /\ UNCHANGED <<ranking, certification, helper_artist_group, helper_single,
                         helper_artist_score, season, playlist>>]_vars

\* a season query of no shape has been refused, a playlist already filled
C10_Refused ==
    /\ last.op = "season"
    /\ ~EightShapes(Tagged(last.query))
    /\ last.error = "UnsupportedQueryError"
    /\ \E p \in Playlists : playlist[p] # <<>>

\* the season row stored last
StoredLast(rows) == CHOOSE s \in rows : \A t \in rows : t.rowid <= s.rowid

\* q is `<range> <X>` for a slot number or classification words X
CreatesInRange(q) ==
    /\ _season_parse_query(q).ok
    /\ SeasonCase(_season_parse_query(q).groups) \in {"create slot", "create range"}

\* the update has put the season of the row stored into the playlist of stored
Republished(stored) ==
    /\ last'.error = ""
    /\ season' = season
    /\ \E tracks \in _season_retrieve_tracks(Db, helper_artist_score', stored.classification,
                                             stored.start_date, stored.stop_date) :
          playlist' = [playlist EXCEPT ![stored.playlist_spotify_id] = tracks]

\* C11 as stated: when `<range> <X>` has created a season and the next call
\* is `update <range> <X>`, the update ends without an exception and puts the
\* releases of the stored window [start_date, stop_date) into the stored playlist
C11_AsStated ==
    [][(/\ last.op = "season" /\ last.error = "" /\ CreatesInRange(last.query)
        /\ last'.op = "season"
        /\ last'.query = Sentence(<<W_update, last.query>>)) =>
          Republished(StoredLast(season))]_vars

\* `update 2020 3` has found the season `2020 3` stored and has ended in the
\* AttributeError of classification.split()
C11_SlotRefused ==
    /\ last.op = "season"
    /\ last.query = Sentence(<<W_update, W_2020, Q_3>>)
    /\ last.error = "AttributeError"
    /\ \E s \in season : s.classification = SlotOf(3) /\ s.min_year = 2020

\* the releases automatic seasons take with release_day in [start_date, stop_date)
Eligible(db, start_date, stop_date) ==
    SeasonRecords(db, AUTOSEASON_RANKINGS, start_date, stop_date, EXCLUSION_CERTIFICATIONS)

\* the number of tracks of the window [start_date, stop_date)
WindowCount(db, start_date, stop_date) ==
    SumValues([x \in {<<strray2list(r.track_names), r.release_day>> :
                        r \in Eligible(db, start_date, stop_date)} |-> Len(x[1])])

\* the days on which the running count of a window from start_date has reached 80
Reaching(db, start_date, year) ==
    {r.release_day : r \in {x \in Eligible(db, start_date, beginning_year(year + 1)) :
        WindowCount(db, start_date, NextDay(x.release_day)) >= IDEAL_AUTOSEASON_LENGTH}}

\* the boundary day: the first of them
Boundary(db, start_date, year) ==
    CHOOSE d \in Reaching(db, start_date, year) : \A e \in Reaching(db, start_date, year) : d <= e

\* of the boundary day and the day after it, the stop date whose window is
\* nearer to 80 tracks, the day after when both are as near
NearestStop(db, start_date, boundary) ==
    IF Abs(WindowCount(db, start_date, boundary) - IDEAL_AUTOSEASON_LENGTH)
          < Abs(WindowCount(db, start_date, NextDay(boundary)) - IDEAL_AUTOSEASON_LENGTH)
    THEN boundary ELSE NextDay(boundary)

\* the dates a window of 2020 is calculated from
Starts2020(db) ==
    {beginning_year(2020)} \cup
    UNION {{r.release_day, NextDay(r.release_day)} :
             r \in Eligible(db, beginning_year(2020), end_year(2020))}

\* C12 as stated: the stop date _season_calculate_end gives for a window of
\* 2020 is January 1 of 2021 when the window never reaches 80 tracks, and
\* otherwise whichever of the boundary day and the day after it leaves the
\* window nearer to 80 tracks (the day after on a tie), also when several
\* releases share the boundary day
C12_AsStated ==
    \A start_date \in Starts2020(Db) :
    \A stop_date \in _season_calculate_end(Db, helper_artist_score, start_date, 2020) :
        stop_date = IF Reaching(Db, start_date, 2020) = {} THEN beginning_year(2021)
                    ELSE NearestStop(Db, start_date, Boundary(Db, start_date, 2020))

\* two releases share the boundary day, and _season_calculate_end keeps the
\* day in the window although the window without it is nearer to 80 tracks
C12_SharedDayKept ==
    \E start_date \in Starts2020(Db) :
       /\ Reaching(Db, start_date, 2020) # {}
       /\ \E b \in {Boundary(Db, start_date, 2020)} :
             /\ Cardinality({r \in Eligible(Db, start_date, beginning_year(2021)) :
                               r.release_day = b}) > 1
             /\ NearestStop(Db, start_date, b) = b
             /\ NextDay(b) \in _season_calculate_end(Db, helper_artist_score, start_date, 2020)

\* the query of the last call has asked for the automatic seasons
UpdatedSeasons ==
    /\ last.op = "season"
    /\ _season_parse_query(last.query).ok
    /\ SeasonCase(_season_parse_query(last.query).groups)
          \in {"update year", "update years", "update all"}

\* the positions in the log of the windows of the year
WindowsOf(log, year) ==
    {i \in 1..Len(log) : log[i].min_year = year /\ log[i].max_year = year}

\* the releases of a window of the log
InWindow(db, w) ==
    _season_retrieve_records(db, SlotOf(w.number), w.start_date, w.stop_date)

Years == 2018..2021

StoredFor(s, w) ==
    /\ s.min_year = w.min_year /\ s.max_year = w.max_year
    /\ s.classification = SlotOf(w.number)
    /\ s.start_date = w.start_date /\ s.stop_date = w.stop_date
    /\ s.playlist_spotify_id = w.playlist_id

\* C14 as stated: a call of ss_season that ends in NoResultsError has
\* written nothing for the season that came out empty: every playlist that
\* is new or changed, every new row of season and every new artist score
\* belongs to a season the call has published before
C14_AsStated ==
    [][(last'.op = "season" /\ last'.error = "NoResultsError") =>
          /\ \A p \in DOMAIN playlist' :
                \/ p \in DOMAIN playlist /\ playlist'[p] = playlist[p]
                \/ \E i \in 1..Len(last'.log) : last'.log[i].playlist_id = p
          /\ \A s \in season' \ season :
                \E i \in 1..Len(last'.log) : StoredFor(s, last'.log[i])
          /\ \A x \in helper_artist_score' \ helper_artist_score :
                \E i \in 1..Len(last'.log) : \E r \in InWindow(Db, last'.log[i]) :
                   x.date_from = r.release_day]_vars

\* an update has ended in NoResultsError and has left a new playlist that
\* no season of the call was published to
C14_PlaylistLeft ==
    /\ UpdatedSeasons
    /\ last.error = "NoResultsError"
    /\ \E p \in DOMAIN playlist \ Playlists :
          /\ playlist[p] = <<>>
          /\ \A i \in 1..Len(last.log) : last.log[i].playlist_id # p
          /\ \A s \in season : s.playlist_spotify_id # p

\* the key of a row of season
SeasonKey(s) == <<s.min_year, s.max_year, s.classification>>

\* the years _season_store_metadata derives from the dates of a row
YearsDerived(s) ==
    /\ s.min_year = IF s.start_date = NoDate THEN NoYear ELSE YearOf(s.start_date)
    /\ s.max_year = IF s.stop_date = NoDate THEN NoYear
                    ELSE IF MonthOf(s.stop_date) = 1 /\ DayOf(s.stop_date) = 1
                    THEN YearOf(s.stop_date) - 1 ELSE YearOf(s.stop_date)

\* C15 as stated: every row of season has the years its dates give, a stop
\* date of January 1 counting for the year before, and no two rows have the
\* same (min_year, max_year, classification), null years included
C15_AsStated ==
    /\ \A s \in season : YearsDerived(s)
    /\ \A s, t \in season : SeasonKey(s) = SeasonKey(t) => s = t

\* two rows of season with null years and the same classification, stored
\* for different playlists
C15_TwoRows ==
    \E s, t \in season :
       /\ s.min_year = NoYear /\ s.max_year = NoYear
       /\ SeasonKey(s) = SeasonKey(t)
       /\ s.playlist_spotify_id # t.playlist_spotify_id

-----------------------------------------------------------------------------
(* Properties of the scores *)

\* The value of a release as stated, times 420: the number of its tracks when
\* it has fewer than 5 tracks and lasts less than 15 minutes, and otherwise
\* its duration by 3 min 30 s plus 2 from 15 minutes to below 63, plus 1
\* outside
StatedValue(track_durations_seconds) ==
    IF Len(track_durations_seconds) < 5 /\ SumSeq(track_durations_seconds) < 15 * 60
    THEN 420 * Len(track_durations_seconds)
    ELSE 2 * SumSeq(track_durations_seconds)
         + 420 * (IF 15 * 60 <= SumSeq(track_durations_seconds)
                     /\ SumSeq(track_durations_seconds) < 63 * 60 THEN 2 ELSE 1)

\* the days a score is computed for: the release days of the ranked releases
RankedDays == {r.release_day : r \in ranking}

\* C16 as stated: with no certification that has a value, the cumulative
\* score of an artist on a day is the sum over the artist's ranked releases
\* up to that day of rank weight times the stated value, whatever the
\* durations of the tracks
C16_AsStated ==
    \A a \in Artists, day \in RankedDays :
       (/\ ArtistRows(Db, certification, a, day) = {}
        /\ \A r \in ArtistRows(Db, ranking, a, day) : r.classification \in DOMAIN RANK_VALUE)
       => cumulative_artist_score(Db, a, day).value
             = SumValues([r \in ArtistRows(Db, ranking, a, day) |->
                            RANK_VALUE[r.classification] * StatedValue(r.track_durations_sec)])

\* a release of three tracks of 100 s each is ranked A, and on its day it adds
\* 1.8 to the cumulative score of its artist where 1.8 x 3 is stated
C16_EqualTracks ==
    \E r \in ranking :
       /\ r.classification = "A" /\ r.track_durations_sec = <<100, 100, 100>>
       /\ ArtistRows(Db, ranking, "a1", r.release_day)
             \ ArtistRows(Db, ranking, "a1", r.release_day - 1) = {r}
       /\ cumulative_artist_score(Db, "a1", r.release_day).value
             - cumulative_artist_score(Db, "a1", r.release_day - 1).value
             = RANK_VALUE["A"] * 420
       /\ StatedValue(r.track_durations_sec) = 3 * 420

\* the ranking history of an artist up to a day, the latest release first
RECURSIVE History(_)
History(rows) ==
    IF rows = {} THEN <<>>
    ELSE <<LatestRow(rows)>> \o History(rows \ {LatestRow(rows)})

\* the seconds of the first k releases of a history that are ranked rank
SecondsOf(history, k, rank) ==
    SumSeq([i \in 1..k |-> IF history[i].classification = rank
                           THEN SumSeq(history[i].track_durations_sec) ELSE 0])

\* the first k releases are ranked A or B, and A has more than 0.70 of their duration
Dominated(history, k) ==
    /\ \A i \in 1..k : history[i].classification \in {"A", "B"}
    /\ 10 * SecondsOf(history, k, "A")
          > 7 * (SecondsOf(history, k, "A") + SecondsOf(history, k, "B"))

\* the length of the longest such prefix, 0 when there is none
LongestDominated(history) ==
    CHOOSE k \in 0..Len(history) :
       /\ k = 0 \/ Dominated(history, k)
       /\ \A j \in (k + 1)..Len(history) : ~Dominated(history, j)

C17_Cut ==
    \E day \in RankedDays :
    \E history \in {History(ArtistRows(Db, ranking, "a1", day))} :
       /\ Len(history) >= 2
       /\ history[1].classification = "C" /\ history[2].classification = "A"
       /\ snapshot_artist_score(Db, "a1", day) = Score(0)

-----------------------------------------------------------------------------
(* Properties of a season of several classifications *)

\* the releases of 2020 in table that are classified classification
Of2020(table, classification) ==
    {r \in table : /\ r.classification = classification
                   /\ r.release_day >= beginning_year(2020)
                   /\ r.release_day < beginning_year(2021)}

\* every track of the release is in the playlist
Holds(tracks, r) ==
    \A i \in 1..Len(TrackIds(r)) : Member(tracks, TrackIds(r)[i])

\* C18 as stated: after `2020 C GOLD` the playlist holds the tracks of every
\* release of 2020 ranked C and of every release of 2020 certified GOLD
C18_AsStated ==
    [][(last'.op = "season" /\ last'.query = Sentence(<<W_2020, Q_C, Q_gold>>)) =>
          \A r \in Of2020(ranking, "C") \cup Of2020(certification, "GOLD") :
             Holds(playlist'[last'.subject], r)]_vars

\* `2020 C GOLD` has filled the playlist with a release certified GOLD, and
\* a release of 2020 ranked C is not in it
C18_RankLeftOut ==
    /\ last.op = "season" /\ last.query = Sentence(<<W_2020, Q_C, Q_gold>>)
    /\ last.error = ""
    /\ \E r \in Of2020(certification, "GOLD") : Holds(playlist[last.subject], r)
    /\ \E r \in Of2020(ranking, "C") : ~Holds(playlist[last.subject], r)

-----------------------------------------------------------------------------
(* Properties of the update of a range of years *)

\* the last call was `update <min_year>-<max_year>`
BoundedUpdate ==
    /\ last.op = "season"
    /\ last.query \in {Sentence(<<W_update, W_2019_21>>), Sentence(<<W_update, W_2018_20>>)}

\* the years the query names
Span == _season_parse_query(last.query).groups[2]

\* the ranked tracks of the years lo..hi
RECURSIVE RangeLen(_, _)
RangeLen(lo, hi) ==
    IF lo > hi THEN 0 ELSE _season_retrieve_year_len(Db, hi) + RangeLen(lo, hi - 1)

LongYear(year) == _season_retrieve_year_len(Db, year) >= IDEAL_AUTOSEASON_LENGTH

\* C19: the ranges of years that `update <min_year>-<max_year>` closes follow
\* one another from min_year without a gap or an overlap, and reach max_year
\* when the update returns; a range is closed at the first year that takes the
\* count to 80, at max_year, or before a year of 80 tracks or more; a year of
\* 80 tracks or more is a range of its own, and its seasons are those of the
\* single year
C19_Partition ==
    BoundedUpdate =>
        \A ranges \in {last.ranges}, span \in {Span} :
            /\ ranges # <<>> => ranges[1][1] = span.min
            /\ last.error = "" => ranges # <<>> /\ ranges[Len(ranges)][2] = span.max
            /\ \A i \in 1..Len(ranges) - 1 : ranges[i + 1][1] = ranges[i][2] + 1
            /\ \A i \in 1..Len(ranges) :
                  \E target_min \in {ranges[i][1]}, target_max \in {ranges[i][2]} :
                     /\ target_min <= target_max /\ target_max <= span.max
                     /\ RangeLen(target_min, target_max - 1) < IDEAL_AUTOSEASON_LENGTH
                     /\ \/ RangeLen(target_min, target_max) >= IDEAL_AUTOSEASON_LENGTH
                        \/ target_max = span.max
                        \/ LongYear(target_max + 1)
                     /\ \A year \in target_min..target_max :
                           LongYear(year) => target_min = target_max
            /\ \A i \in 1..Len(last.log) :
                  \A year \in last.log[i].min_year..last.log[i].max_year :
                     LongYear(year) => last.log[i].min_year = last.log[i].max_year

\* an update of 2019-21 has closed 2019 before 2020, a year of 82 tracks, and
\* has published a season of 2020 alone
C19_Witness ==
    /\ BoundedUpdate
    /\ \E i \in 2..Len(last.ranges) :
          /\ last.ranges[i][1] = last.ranges[i][2]
          /\ LongYear(last.ranges[i][1])
          /\ \E j \in 1..Len(last.log) :
                /\ last.log[j].min_year = last.ranges[i][1]
                /\ last.log[j].max_year = last.ranges[i][1]

-----------------------------------------------------------------------------
(* Properties of the records single-check reads *)

\* the artists of an artist group, as helper_artist_group lists them
GroupIds(db, artist_group) ==
    {g.artist_spotify_id : g \in {x \in db.helper_artist_group :
                                     x.artist_group = artist_group}}

\* the ranking records, other than the new row's own, of a group that has an
\* artist of the new row's group
Sharing(b) ==
    {ex \in b.db.ranking :
        /\ RankingKey(ex) # RankingKey(StoredRow(b.row[1]))
        /\ GroupIds(b.db, ex.artist_group)
             \cap GroupIds(b.db, b.row[1].artist_group) # {}}

\* C20 as stated: when a release is ranked, single-check compares it with
\* every ranking record of a group that shares an artist with the release's
\* group, whichever place the shared artist has in the release's artists
C20_AsStated ==
    \A p \in GroupProjects, c \in RankLetters : \A b \in BuiltRows(p, c) :
        Sharing(b) \subseteq Compared(b)

\* The release of the second artist alone is ranked B; ranking the
\* collaboration, which holds its track, as A reads no record of it and
\* leaves it ranked, without a Single link
C20_SecondArtistMissed ==
    \E c \in {"A"} : \E b \in BuiltRows(P_K, c) :
        \E new \in {StoredRow(b.row[1])}, o \in {_classify_rank(b.db, b.row[1])} :
            /\ o.row # <<>>
            /\ \E ex \in Sharing(b) \ Compared(b) :
                  /\ TracksWithin(ex, new)
                  /\ RankIndex(c) >= RankIndex(ex.classification)
                  /\ ex \in o.db.ranking
                  /\ LinkOf(ex, new) \notin o.db.helper_single

-----------------------------------------------------------------------------
(* Properties of the singles of a season *)

\* the Single links of a ranking record as the single
LinksOf(r) ==
    {link \in helper_single : /\ link.single_release_day = r.release_day
                              /\ link.artist_names = r.artist_names
                              /\ link.single_name = r.name}

In2020(day) == day >= beginning_year(2020) /\ day < beginning_year(2021)

\* C21 as stated: `2020 A B` publishes the tracks of every release of 2020
\* ranked A or B whose Single links, if it has any, all lead to an album
\* released outside 2020
C21_AsStated ==
    [][(last'.op = "season" /\ last'.query = Sentence(<<W_2020, Q_A, Q_b>>)) =>
          \A r \in Of2020(ranking, "A") \cup Of2020(ranking, "B") :
             (\A link \in LinksOf(r) : ~In2020(link.album_release_day)) =>
                 Holds(playlist'[last'.subject], r)]_vars

\* `2020 A B` has left out the single of 2020, whose only link leads to the
\* album of 2021
C21_SingleLeftOut ==
    /\ last.op = "season" /\ last.query = Sentence(<<W_2020, Q_A, Q_b>>)
    /\ \E r \in Of2020(ranking, "A") \cup Of2020(ranking, "B") :
          /\ LinksOf(r) # {}
          /\ \A link \in LinksOf(r) : ~In2020(link.album_release_day)
          /\ ~Holds(playlist[last.subject], r)

-----------------------------------------------------------------------------
(* Properties of the tracks a season sends *)

\* no item of the sequence comes twice
NoRepeat(tracks) ==
    \A i, j \in 1..Len(tracks) : tracks[i] = tracks[j] => i = j

\* C22 as stated: no playlist a season has filled holds a track id twice
C22_AsStated == \A p \in DOMAIN playlist : NoRepeat(playlist[p])

\* a season of GOLD and CHRISTMAS has sent twice a track that one album has
\* under both certifications
C22_TrackTwice ==
    /\ last.op = "season" /\ last.error = ""
    /\ \E r, x \in certification :
          /\ r.classification # x.classification
          /\ RankingKey(r) = RankingKey(x)
          /\ \E i, j \in 1..Len(playlist[last.subject]) :
                /\ i # j
                /\ playlist[last.subject][i] = playlist[last.subject][j]
                /\ Member(TrackIds(r), playlist[last.subject][i])
                /\ Member(TrackIds(x), playlist[last.subject][i])

-----------------------------------------------------------------------------
(* Properties of the metadata of a season that is published again *)

\* the last call was `update <year>` or `update <min_year>-<max_year>`
BoundedReplay ==
    /\ last.op = "season"
    /\ _season_parse_query(last.query).ok
    /\ SeasonCase(_season_parse_query(last.query).groups) \in {"update year", "update years"}

\* the stored season of the slot of a window
SlotRows(w) ==
    {s \in season : /\ s.min_year = w.min_year /\ s.max_year = w.max_year
                    /\ s.classification = SlotOf(w.number)}

\* C23 as stated: after `update <year>` or `update <min_year>-<max_year>` the
\* stored season of every slot it has published holds the start date, the stop
\* date and the playlist of the window just published
C23_AsStated ==
    BoundedReplay =>
        \A i \in 1..Len(last.log) : \E s \in SlotRows(last.log[i]) : StoredFor(s, last.log[i])

\* an update has published a window into the playlist of a stored slot whose
\* stored stop date is another one
C23_StaleDates ==
    /\ BoundedReplay
    /\ \E i \in 1..Len(last.log) : \E s \in SlotRows(last.log[i]) :
          /\ s.playlist_spotify_id = last.log[i].playlist_id
          /\ s.start_date = last.log[i].start_date
          /\ s.stop_date # last.log[i].stop_date
          /\ playlist[s.playlist_spotify_id]
                \in _season_retrieve_tracks(Db, helper_artist_score, SlotOf(last.log[i].number),
                                            last.log[i].start_date, last.log[i].stop_date)

-----------------------------------------------------------------------------
(* Properties of the dividers of a year *)

\* the dividers _season_calculate_year can yield for the year: January 1 and
\* every stop date calculated from a divider before January 1 of the next year
RECURSIVE Dividers(_, _)
Dividers(year, seen) ==
    CHOOSE out \in
        {IF next = seen THEN seen ELSE Dividers(year, next) :
           next \in {seen \cup UNION {_season_calculate_end(Db, helper_artist_score, d, year) :
                                        d \in seen \ {beginning_year(year + 1)}}}} : TRUE

\* C24 as stated: in a year that holds tracks, the stop date calculated from
\* a divider is later than the divider, so the dividers increase up to
\* January 1 of the next year
C24_AsStated ==
    \A year \in Years :
        _season_retrieve_year_len(Db, year) > 0 =>
            \A d \in Dividers(year, {beginning_year(year)}) \ {beginning_year(year + 1)} :
                \A stop \in _season_calculate_end(Db, helper_artist_score, d, year) : stop > d

\* `update 2020` has ended in NoResultsError where January 1 holds a release
\* of more than 160 tracks: the stop date calculated from January 1 is
\* January 1
C24_DividerStays ==
    /\ last.op = "season" /\ last.query = Sentence(<<W_update, W_2020>>)
    /\ last.error = "NoResultsError"
    /\ \E r \in Eligible(Db, beginning_year(2020), NextDay(beginning_year(2020))) :
          Len(TrackIds(r)) > 2 * IDEAL_AUTOSEASON_LENGTH
    /\ beginning_year(2020)
          \in _season_calculate_end(Db, helper_artist_score, beginning_year(2020), 2020)

-----------------------------------------------------------------------------
(* Properties of the windows an update publishes *)

\* C25 as stated: `update <year>` or `update <min_year>-<max_year>` over
\* years that hold tracks automatic seasons take does not end in
\* NoResultsError
C25_AsStated ==
    (BoundedReplay /\ RangeLen(Span.min, Span.max) > 0) => last.error # "NoResultsError"

\* an update over years that hold tracks has ended in NoResultsError, after
\* the windows of its log
C25_EmptyWindow ==
    /\ BoundedReplay
    /\ RangeLen(Span.min, Span.max) > 0
    /\ last.error = "NoResultsError"

-----------------------------------------------------------------------------
(* Properties of the score of the lowest rank *)

\* the artists of the groups of the ranking records up to the day
RankedArtists(day) ==
    UNION {GroupIds(Db, r.artist_group) : r \in {x \in ranking : x.release_day <= day}}

\* C26 as stated: the cumulative score and the overall score of an artist
\* with ranked releases are numbers, whichever ranks the releases have, and
\* no season ends in KeyError
C26_AsStated ==
    /\ last.error # "KeyError"
    /\ \A r \in ranking : \A a \in RankedArtists(r.release_day) :
          /\ cumulative_artist_score(Db, a, r.release_day).error = ""
          /\ overall_artist_score(Db, a, r.release_day).error = ""

\* a season that takes a release ranked E has ended in KeyError and has left
\* its playlist as it was
C26_LowestRankRaises ==
    /\ last.op = "season" /\ last.error = "KeyError"
    /\ \E r \in Of2020(ranking, "E") :
          /\ ~Holds(playlist[last.subject], r)
          /\ \E a \in GroupIds(Db, r.artist_group) :
                cumulative_artist_score(Db, a, r.release_day).error = "KeyError"

=============================================================================
